---- MODULE Spec2Model ----
(***************************************************************************)
(* Model of the RAG kernel: the vector store (src/src/rag/vector-store.ts, *)
(* InMemoryVectorStore and PersistentVectorStore) with the similarity      *)
(* functions of the embeddings module that search calls, the Retriever and *)
(* Indexer (src/src/rag/retrieval.ts) and the chunker                      *)
(* (src/src/processing/chunking.ts).                                       *)
(***************************************************************************)
EXTENDS Integers, Sequences, FiniteSets, TLC

(***************************************************************************)
(* Bounds of the model.                                                    *)
(***************************************************************************)
MaxTime == 1
MaxCapacity == 2
MaxBatch == 3
MaxTopK == 2
MaxImport == 2

\* the ids the Indexers generate in one run
MaxIndexed == 2

\* the longest text given to the chunker, and the largest maxChunkSize
MaxText == 6
MaxChunkSize == 3

\* the longest array given to mergeSmallChunks
MaxChunks == 3

\* the pieces of a text given to a token counter, and the largest maxTokens
MaxPieces == 4
MaxTokens == 3

\* config.dimensions of the modelled store instance
Dimensions == 2

Ids == {"a", "b", "c"}
NoId == "-"

\* The documents callers pass to add (Omit<VectorDocument, 'createdAt'>): two
\* contents with their embeddings, and an embedding whose length is not Dimensions.
InputDocs ==
  { [id |-> "a", content |-> "x", embedding |-> <<1, 0>>],
    [id |-> "a", content |-> "y", embedding |-> <<0, 1>>],
    [id |-> "a", content |-> "x", embedding |-> <<1>>],
    [id |-> "b", content |-> "x", embedding |-> <<1, 0>>],
    [id |-> "b", content |-> "x", embedding |-> <<1>>],
    [id |-> "c", content |-> "y", embedding |-> <<0, 1>>] }

\* the documents addBatch is called with
BatchDocs ==
  { [id |-> "b", content |-> "x", embedding |-> <<1>>],
    [id |-> "c", content |-> "y", embedding |-> <<0, 1>>] }

\* VectorDocuments a caller hands to import: with a createdAt of their own
ImportDocs ==
  { [id |-> "a", content |-> "x", embedding |-> <<1, 0>>, createdAt |-> 0],
    [id |-> "c", content |-> "x", embedding |-> <<1>>, createdAt |-> 0] }

\* the Indexers attached to the store
Indexers == {1, 2}

\* the asynchronous callers of one store, each with at most one call in flight
Callers == {1, 2}

IdleCall == [pc |-> "idle"]

\* what index and indexBatch are called with: content and metadata entries
IndexDocs ==
  { [content |-> "ab", metadata |-> <<>>],
    [content |-> "abcdefgh", metadata |-> << <<"k", "v">> >>],
    [content |-> "q", metadata |-> <<>>] }

\* minScore values, as fractions p/q
MinScores == { [p |-> 0, q |-> 1], [p |-> 3, q |-> 4], [p |-> 2, q |-> 1] }

ContextLengths == {2, 10, 17}

\* the overrides retrieve is called with; the first is no override
RetrieveOptions ==
  { [f \in {} |-> f] }
  \cup { [topK |-> k] : k \in 0..MaxTopK }
  \cup { [minScore |-> ms] : ms \in MinScores }
  \cup { [maxContextLength |-> c, minScore |-> [p |-> 0, q |-> 1]] : c \in ContextLengths }
  \cup { [maxContextLength |-> 10, minScore |-> [p |-> 0, q |-> 1], includeMetadata |-> FALSE] }

Queries == { <<1, 0>>, <<1, 1>>, <<1>> }

\* search filters: no filter, or a predicate on the document's content
Filters == {"none", "x"}

VARIABLES
  kind,       \* "memory" (InMemoryVectorStore) or "persistent" (PersistentVectorStore)
  config,     \* this.config
  documents,  \* this.documents : Map<string, VectorDocument>
  now,        \* the clock read by new Date()
  storage,    \* localStorage value under storageKey
  imports,    \* what import was called with on this store instance: "none" (never called),
              \* "ok" (embeddings of the configured length only) or "mismatch"
  addRun,     \* the ids added since the store was empty, while only adds of distinct ids happened
  last,       \* the last operation: its name, arguments and result
  idCounter,  \* Indexer.idCounter of each Indexer attached to the store
  issued,     \* the ids the Indexers have generated so far and added a document under
  inflight    \* the calls in flight, by caller

vars ==
  <<kind, config, documents, now, storage, imports, addRun, last, idCounter, issued, inflight>>

(***************************************************************************)
(* Map<string, VectorDocument>: keys in insertion order, and the values.   *)
(***************************************************************************)
\* the element of a one-element set: binds a computed value to a name
Only(S) == CHOOSE x \in S : TRUE

Min(a, b) == IF a < b THEN a ELSE b

EmptyMap == [order |-> <<>>, val |-> [x \in {} |-> x]]

MapHas(m, k) == k \in DOMAIN m.val

MapSize(m) == Len(m.order)

MapGet(m, k) == m.val[k]

MapSet(m, k, v) ==
  [order |-> IF MapHas(m, k) THEN m.order ELSE Append(m.order, k),
   val |-> [x \in (DOMAIN m.val) \cup {k} |-> IF x = k THEN v ELSE m.val[x]]]

MapDelete(m, k) ==
  [order |-> SelectSeq(m.order, LAMBDA x : x # k),
   val |-> [x \in (DOMAIN m.val) \ {k} |-> m.val[x]]]

MapValues(m) == [i \in 1..Len(m.order) |-> m.val[m.order[i]]]

MapKeys(m) == { m.order[i] : i \in 1..Len(m.order) }

(***************************************************************************)
(* Array.prototype.sort is stable: elements that compare equal keep their  *)
(* relative order.  Both sorts below insert each element after the ones    *)
(* that do not come after it.                                              *)
(***************************************************************************)
InsertAt(s, p, x) == SubSeq(s, 1, p) \o <<x>> \o SubSeq(s, p + 1, Len(s))

Front(s) == SubSeq(s, 1, Len(s) - 1)

Last(s) == s[Len(s)]

\* .sort((a, b) => a.createdAt.getTime() - b.createdAt.getTime())
RECURSIVE SortByCreatedAt(_)
SortByCreatedAt(s) ==
  IF s = <<>> THEN <<>>
  ELSE LET sorted == SortByCreatedAt(Front(s))
           x == Last(s)
           p == Cardinality({ i \in 1..Len(sorted) : sorted[i].createdAt <= x.createdAt })
       IN InsertAt(sorted, p, x)

\* the id of the document add evicts: the head of the sorted values
OldestNewest(m) ==
  LET sorted == SortByCreatedAt(MapValues(m))
  IN IF sorted = <<>> THEN NoId ELSE sorted[Len(sorted)].id

Oldest(m) ==
  LET sorted == SortByCreatedAt(MapValues(m))
  IN IF sorted = <<>> THEN NoId ELSE sorted[1].id

(***************************************************************************)
(* InMemoryVectorStore.add                                                 *)
(***************************************************************************)
\* { ...doc, createdAt: new Date() }
Stamp(doc, t) ==
  [f \in (DOMAIN doc) \cup {"createdAt"} |-> IF f = "createdAt" THEN t ELSE doc[f]]

addNoDimCheck(m, cfg, doc, t) ==
  LET atCapacity == cfg.maxDocuments # 0 /\ MapSize(m) >= cfg.maxDocuments
      oldest == IF atCapacity THEN Oldest(m) ELSE NoId
      m1 == IF oldest # NoId THEN MapDelete(m, oldest) ELSE m
  IN [err |-> "none", documents |-> MapSet(m1, doc.id, Stamp(doc, t)), evicted |-> oldest]

addNoEvict(m, cfg, doc, t) ==
  IF Len(doc.embedding) # cfg.dimensions
  THEN [err |-> "DimensionMismatch", documents |-> m, evicted |-> NoId]
  ELSE [err |-> "none", documents |-> MapSet(m, doc.id, Stamp(doc, t)), evicted |-> NoId]

add(m, cfg, doc, t) ==
  IF Len(doc.embedding) # cfg.dimensions
  THEN [err |-> "DimensionMismatch", documents |-> m, evicted |-> NoId]
  ELSE LET atCapacity == cfg.maxDocuments # 0 /\ MapSize(m) >= cfg.maxDocuments
       IN Only({ [err |-> "none",
                  documents |-> MapSet(IF oldest # NoId THEN MapDelete(m, oldest) ELSE m,
                                       doc.id, Stamp(doc, t)),
                  evicted |-> oldest] :
                 oldest \in { IF atCapacity THEN Oldest(m) ELSE NoId } })

(***************************************************************************)
(* cosineSimilarity and euclideanDistance of the embeddings module.  A     *)
(* score is kept as an exact fraction n/d (d > 0) that orders scores as    *)
(* the floating-point values do: for cosine sign(dot)*dot^2/(|a|^2*|b|^2), *)
(* the signed square of dot/(|a|*|b|); for euclidean -sum, since           *)
(* 1/(1+sqrt(sum)) decreases with sum.                                     *)
(***************************************************************************)
RECURSIVE SumProd(_, _, _)
SumProd(a, b, n) == IF n = 0 THEN 0 ELSE SumProd(a, b, n - 1) + a[n] * b[n]

RECURSIVE SumSqDiff(_, _, _)
SumSqDiff(a, b, n) ==
  IF n = 0 THEN 0 ELSE SumSqDiff(a, b, n - 1) + (a[n] - b[n]) * (a[n] - b[n])

Sign(x) == IF x > 0 THEN 1 ELSE IF x < 0 THEN -1 ELSE 0

cosineSimilarity(a, b) ==
  IF Len(a) # Len(b) THEN [err |-> "SameDimensions", n |-> 0, d |-> 1]
  ELSE LET dotProduct == SumProd(a, b, Len(a))
           magnitudeA == SumProd(a, a, Len(a))
           magnitudeB == SumProd(b, b, Len(a))
       IN IF magnitudeA = 0 \/ magnitudeB = 0
          THEN [err |-> "none", n |-> 0, d |-> 1]
          ELSE [err |-> "none", n |-> Sign(dotProduct) * dotProduct * dotProduct,
                d |-> magnitudeA * magnitudeB]

euclideanDistance(a, b) ==
  IF Len(a) # Len(b) THEN [err |-> "SameDimensions", n |-> 0, d |-> 1]
  ELSE [err |-> "none", n |-> SumSqDiff(a, b, Len(a)), d |-> 1]

ScoreGreater(s1, s2) == s1.n * s2.d > s2.n * s1.d

ScoreOf(cfg, query, doc) ==
  IF cfg.similarityMetric = "cosine"
  THEN cosineSimilarity(query, doc.embedding)
  ELSE LET dist == euclideanDistance(query, doc.embedding)
       IN [err |-> dist.err, n |-> 0 - dist.n, d |-> 1]

(***************************************************************************)
(* InMemoryVectorStore.search                                              *)
(***************************************************************************)
Passes(filter, doc) == filter = "none" \/ doc.content = filter

\* a sort with the comparator turned round
RECURSIVE SortByScoreAsc(_)
SortByScoreAsc(s) ==
  IF s = <<>> THEN <<>>
  ELSE LET sorted == SortByScoreAsc(Front(s))
           x == Last(s)
           p == Cardinality({ i \in 1..Len(sorted) : ~ScoreGreater(sorted[i].score, x.score) })
       IN InsertAt(sorted, p, x)

\* results.sort((a, b) => b.score - a.score)
RECURSIVE SortByScoreDesc(_)
SortByScoreDesc(s) ==
  IF s = <<>> THEN <<>>
  ELSE LET sorted == SortByScoreDesc(Front(s))
           x == Last(s)
           p == Cardinality({ i \in 1..Len(sorted) : ~ScoreGreater(x.score, sorted[i].score) })
       IN InsertAt(sorted, p, x)

\* Array.prototype.slice(0, end)
Slice0(s, end) ==
  LET e == IF end < 0 THEN (IF Len(s) + end < 0 THEN 0 ELSE Len(s) + end)
           ELSE (IF end > Len(s) THEN Len(s) ELSE end)
  IN SubSeq(s, 1, e)

NoResults == <<>>

search(m, cfg, query, topK, filter) ==
  IF Len(query) # cfg.dimensions
  THEN [err |-> "DimensionMismatch", results |-> NoResults]
  ELSE LET matching == SelectSeq(MapValues(m), LAMBDA doc : Passes(filter, doc))
           scored == [i \in 1..Len(matching) |->
                        [document |-> matching[i], score |-> ScoreOf(cfg, query, matching[i])]]
       IN IF \E i \in 1..Len(scored) : scored[i].score.err # "none"
          THEN [err |-> "SameDimensions", results |-> NoResults]
          ELSE [err |-> "none", results |-> Slice0(SortByScoreDesc(scored), topK)]

(***************************************************************************)
(* InMemoryVectorStore.export and import                                   *)
(***************************************************************************)
export(m) == MapValues(m)

\* an import that returns after its first document
importFirstOnly(m, docs) ==
  IF docs = <<>> THEN m ELSE MapSet(m, docs[1].id, docs[1])

RECURSIVE import(_, _)
import(m, docs) ==
  IF docs = <<>> THEN m
  ELSE LET d == Last(docs) IN MapSet(import(m, Front(docs)), d.id, d)

(***************************************************************************)
(* PersistentVectorStore.save and load.  JSON.stringify writes createdAt   *)
(* as an ISO string, which load turns back into a Date.                    *)
(***************************************************************************)
toISOString(t) == <<"iso", t>>

DateFrom(iso) == iso[2]

Stringify(docs) ==
  [i \in 1..Len(docs) |->
     [f \in DOMAIN docs[i] |->
        IF f = "createdAt" THEN toISOString(docs[i].createdAt) ELSE docs[i][f]]]

\* { ...d, createdAt: new Date(d.createdAt) }
Revive(d) == [f \in DOMAIN d |-> IF f = "createdAt" THEN DateFrom(d.createdAt) ELSE d[f]]

Absent == [state |-> "absent", docs |-> <<>>]

Corrupt == [state |-> "corrupt", docs |-> <<>>]

\* a value JSON.parse accepts and that is no array: docs.map throws
NotArray == [state |-> "notarray", docs |-> <<>>]

\* a save that writes nothing
saveNothing(m, st, setItemOk) == st

\* setItemOk: whether JSON.stringify and localStorage.setItem complete without throwing
save(m, st, setItemOk) ==
  IF setItemOk THEN [state |-> "json", docs |-> Stringify(export(m))] ELSE st

\* a load that keeps a document of a value it could not decode to the end
loadPartial(m, st) ==
  IF st.state = "json"
  THEN import(m, [i \in 1..Len(st.docs) |-> Revive(st.docs[i])])
  ELSE IF st.state = "corrupt"
  THEN MapSet(m, "a", [id |-> "a", content |-> "x", embedding |-> <<1, 0>>, createdAt |-> 0])
  ELSE m

load(m, st) ==
  IF st.state = "json"
  THEN import(m, [i \in 1..Len(st.docs) |-> Revive(st.docs[i])])
  ELSE m

(***************************************************************************)
(* add as the store instance dispatches it: PersistentVectorStore.add      *)
(* calls super.add and then save.                                          *)
(***************************************************************************)
storeAdd(k, m, st, cfg, doc, t, setItemOk) ==
  Only({ [err |-> r.err, documents |-> r.documents, evicted |-> r.evicted,
          storage |-> IF k = "persistent" /\ r.err = "none"
                      THEN save(r.documents, st, setItemOk) ELSE st,
          saved |-> k = "persistent" /\ r.err = "none" /\ setItemOk] :
         r \in { add(m, cfg, doc, t) } })

\* a loop that goes on after a failing add
RECURSIVE addBatchFromSkip(_, _, _, _, _, _, _, _)
addBatchFromSkip(i, k, m, st, cfg, docs, ts, oks) ==
  IF i > Len(docs) THEN [err |-> "none", documents |-> m, storage |-> st, done |-> Len(docs)]
  ELSE Only({ addBatchFromSkip(i + 1, k, r.documents, r.storage, cfg, docs, ts, oks) :
              r \in { storeAdd(k, m, st, cfg, docs[i], ts[i], oks[i]) } })

\* InMemoryVectorStore.addBatch: for (const doc of docs) await this.add(doc)
RECURSIVE addBatchFrom(_, _, _, _, _, _, _, _)
addBatchFrom(i, k, m, st, cfg, docs, ts, oks) ==
  IF i > Len(docs) THEN [err |-> "none", documents |-> m, storage |-> st, done |-> Len(docs)]
  ELSE Only({ IF r.err # "none"
              THEN [err |-> r.err, documents |-> r.documents, storage |-> r.storage,
                    done |-> i - 1]
              ELSE addBatchFrom(i + 1, k, r.documents, r.storage, cfg, docs, ts, oks) :
              r \in { storeAdd(k, m, st, cfg, docs[i], ts[i], oks[i]) } })

addBatch(k, m, st, cfg, docs, ts, oks) == addBatchFrom(1, k, m, st, cfg, docs, ts, oks)

(***************************************************************************)
(* The embedding provider the Retriever and the Indexer are given: it      *)
(* answers a text with an embedding, or fails.  Its answer for the text    *)
(* "q" has another length than the store is configured with.               *)
(***************************************************************************)
Texts == {"ab", "abcdefgh", "q"}

Embed(text) ==
  IF text = "ab" THEN <<1, 0>> ELSE IF text = "abcdefgh" THEN <<1, 1>> ELSE <<1>>

\* EmbeddingProvider.embed; ok: whether the provider call succeeds
embed(text, ok) ==
  IF ok THEN [err |-> "none", embedding |-> Embed(text)]
  ELSE [err |-> "ProviderError", embedding |-> <<>>]

\* EmbeddingProvider.embedBatch: one call for all texts
embedBatch(texts, ok) ==
  IF ok THEN [err |-> "none", embeddings |-> [i \in 1..Len(texts) |-> Embed(texts[i])]]
  ELSE [err |-> "ProviderError", embeddings |-> <<>>]

(***************************************************************************)
(* Retriever.  metadata is the sequence of the [key, value] entries of the *)
(* metadata object, <<>> where a document has none; minScore is a fraction *)
(* p/q with q > 0.                                                         *)
(***************************************************************************)
NoMetadata == <<>>

Undefined == "undefined"

defaultConfig ==
  [topK |-> 5, minScore |-> [p |-> 1, q |-> 2], maxContextLength |-> 4000,
   includeMetadata |-> TRUE]

\* { ...this.config, ...options }
Merge(base, options) ==
  [f \in DOMAIN base |-> IF f \in DOMAIN options THEN options[f] ELSE base[f]]

\* r.score >= config.minScore, on the exact value of the score: the cosine score
\* is kept as its signed square n/d, the euclidean score 1/(1+sqrt(sum)) as -sum
ScoreAtLeast(cfg, score, minScore) ==
  IF cfg.similarityMetric = "cosine"
  THEN score.n * minScore.q * minScore.q >= Sign(minScore.p) * minScore.p * minScore.p * score.d
  ELSE \/ minScore.p <= 0
       \/ /\ minScore.p <= minScore.q
          /\ (0 - score.n) * minScore.p * minScore.p
               <= (minScore.q - minScore.p) * (minScore.q - minScore.p)

\* Array.prototype.join
RECURSIVE Join(_, _)
Join(parts, sep) ==
  IF parts = <<>> THEN ""
  ELSE IF Len(parts) = 1 THEN parts[1]
  ELSE Join(Front(parts), sep) \o sep \o Last(parts)

MetadataOf(document) ==
  IF "metadata" \in DOMAIN document THEN document.metadata ELSE NoMetadata

\* Retriever.formatDocument
formatDocument(result, rcfg) ==
  LET document == result.document
      entries == SelectSeq(MetadataOf(document), LAMBDA e : e[2] # Undefined)
      metaStr == IF rcfg.includeMetadata
                 THEN Join([i \in 1..Len(entries) |-> entries[i][1] \o ": " \o entries[i][2]], ", ")
                 ELSE ""
      parts == IF metaStr # "" THEN << "[" \o metaStr \o "]", document.content >>
               ELSE << document.content >>
  IN Join(parts, "\n")

\* the loop of buildContext that goes on after a document that does not fit
RECURSIVE contextPartsSkip(_, _, _, _, _)
contextPartsSkip(results, i, parts, currentLength, rcfg) ==
  IF i > Len(results) THEN parts
  ELSE LET docContent == formatDocument(results[i], rcfg)
       IN IF currentLength + Len(docContent) > rcfg.maxContextLength
          THEN contextPartsSkip(results, i + 1, parts, currentLength, rcfg)
          ELSE contextPartsSkip(results, i + 1, Append(parts, docContent),
                                currentLength + Len(docContent), rcfg)

\* the loop of buildContext that stops at a document that fills the context to
\* the last character
RECURSIVE contextPartsStrict(_, _, _, _, _)
contextPartsStrict(results, i, parts, currentLength, rcfg) ==
  IF i > Len(results) THEN parts
  ELSE LET docContent == formatDocument(results[i], rcfg)
       IN IF currentLength + Len(docContent) >= rcfg.maxContextLength
          THEN parts
          ELSE contextPartsStrict(results, i + 1, Append(parts, docContent),
                                  currentLength + Len(docContent), rcfg)

\* the loop of Retriever.buildContext: parts after the documents from i on
RECURSIVE contextParts(_, _, _, _, _)
contextParts(results, i, parts, currentLength, rcfg) ==
  IF i > Len(results) THEN parts
  ELSE LET docContent == formatDocument(results[i], rcfg)
       IN IF currentLength + Len(docContent) > rcfg.maxContextLength
          THEN parts
          ELSE contextParts(results, i + 1, Append(parts, docContent),
                            currentLength + Len(docContent), rcfg)

Delimiter == "\n\n---\n\n"

\* Retriever.buildContext
buildContext(results, rcfg) == Join(contextParts(results, 1, <<>>, 0, rcfg), Delimiter)

NoRetrieval(e) ==
  [err |-> e, documents |-> <<>>, context |-> "", tokenEstimate |-> 0, totalResults |-> 0]

\* a retrieve that does not filter by score
retrieveUnfiltered(m, cfg, options, query, ok) ==
  LET rcfg == Merge(defaultConfig, options)
      queryEmbedding == embed(query, ok)
      r == search(m, cfg, queryEmbedding.embedding, rcfg.topK, "none")
  IN IF queryEmbedding.err # "none" THEN NoRetrieval(queryEmbedding.err)
     ELSE IF r.err # "none" THEN NoRetrieval(r.err)
     ELSE Only({ [err |-> "none", documents |-> r.results, context |-> context,
                  tokenEstimate |-> (Len(context) + 3) \div 4,
                  totalResults |-> Len(r.results)] :
                 context \in { buildContext(r.results, rcfg) } })

\* Retriever.retrieve, of a Retriever constructed with the default configuration
retrieve(m, cfg, options, query, ok) ==
  LET rcfg == Merge(defaultConfig, options)
      queryEmbedding == embed(query, ok)
      r == search(m, cfg, queryEmbedding.embedding, rcfg.topK, "none")
      filtered == SelectSeq(r.results, LAMBDA x : ScoreAtLeast(cfg, x.score, rcfg.minScore))
  IN IF queryEmbedding.err # "none" THEN NoRetrieval(queryEmbedding.err)
     ELSE IF r.err # "none" THEN NoRetrieval(r.err)
     ELSE Only({ [err |-> "none", documents |-> filtered, context |-> context,
                  tokenEstimate |-> (Len(context) + 3) \div 4,
                  totalResults |-> Len(r.results)] :
                 context \in { buildContext(filtered, rcfg) } })

(***************************************************************************)
(* Indexer                                                                 *)
(***************************************************************************)
\* `doc-${Date.now()}-${this.idCounter++}`
NewId(t, counter) == "doc-" \o ToString(t) \o "-" \o ToString(counter)

\* an index that calls the provider again until it answers
indexRetrying(k, m, st, cfg, counter, content, metadata, t, ok, setItemOk) ==
  LET id == NewId(t, counter)
      embedding == embed(content, TRUE)
  IN Only({ [err |-> r.err, id |-> id, idCounter |-> counter + 1,
             documents |-> r.documents, storage |-> r.storage, evicted |-> r.evicted] :
            r \in { storeAdd(k, m, st, cfg,
                             [id |-> id, content |-> content,
                              embedding |-> embedding.embedding, metadata |-> metadata],
                             t, setItemOk) } })

\* Indexer.index; the counter is raised before the provider is called
index(k, m, st, cfg, counter, content, metadata, t, ok, setItemOk) ==
  LET id == NewId(t, counter)
      embedding == embed(content, ok)
  IN IF embedding.err # "none"
     THEN [err |-> embedding.err, id |-> id, idCounter |-> counter + 1, documents |-> m,
           storage |-> st, evicted |-> NoId]
     ELSE Only({ [err |-> r.err, id |-> id, idCounter |-> counter + 1,
                  documents |-> r.documents, storage |-> r.storage, evicted |-> r.evicted] :
                 r \in { storeAdd(k, m, st, cfg,
                                  [id |-> id, content |-> content,
                                   embedding |-> embedding.embedding, metadata |-> metadata],
                                  t, setItemOk) } })

\* a loop that gives every document the first embedding of the batch
RECURSIVE indexBatchFromFirst(_, _, _, _, _, _, _, _, _, _, _)
indexBatchFromFirst(i, k, m, st, cfg, counter, docs, embeddings, t, setItemOk, ids) ==
  IF i > Len(docs)
  THEN [err |-> "none", ids |-> ids, idCounter |-> counter, documents |-> m, storage |-> st]
  ELSE Only({ IF r.err # "none"
              THEN [err |-> r.err, ids |-> <<>>, idCounter |-> counter + 1,
                    documents |-> r.documents, storage |-> r.storage]
              ELSE indexBatchFromFirst(i + 1, k, r.documents, r.storage, cfg, counter + 1, docs,
                                       embeddings, t, setItemOk, Append(ids, NewId(t, counter))) :
              r \in { storeAdd(k, m, st, cfg,
                               [id |-> NewId(t, counter), content |-> docs[i].content,
                                embedding |-> embeddings[1], metadata |-> docs[i].metadata],
                               t, setItemOk) } })

\* the loop of Indexer.indexBatch from document i on; a failing add ends it and
\* no id is returned
RECURSIVE indexBatchFrom(_, _, _, _, _, _, _, _, _, _, _)
indexBatchFrom(i, k, m, st, cfg, counter, docs, embeddings, t, setItemOk, ids) ==
  IF i > Len(docs)
  THEN [err |-> "none", ids |-> ids, idCounter |-> counter, documents |-> m, storage |-> st]
  ELSE Only({ IF r.err # "none"
              THEN [err |-> r.err, ids |-> <<>>, idCounter |-> counter + 1,
                    documents |-> r.documents, storage |-> r.storage]
              ELSE indexBatchFrom(i + 1, k, r.documents, r.storage, cfg, counter + 1, docs,
                                  embeddings, t, setItemOk, Append(ids, NewId(t, counter))) :
              r \in { storeAdd(k, m, st, cfg,
                               [id |-> NewId(t, counter), content |-> docs[i].content,
                                embedding |-> embeddings[i], metadata |-> docs[i].metadata],
                               t, setItemOk) } })

\* Indexer.indexBatch: one embedBatch call, then the adds
indexBatch(k, m, st, cfg, counter, docs, t, ok, setItemOk) ==
  LET embeddings == embedBatch([i \in 1..Len(docs) |-> docs[i].content], ok)
  IN IF embeddings.err # "none"
     THEN [err |-> embeddings.err, ids |-> <<>>, idCounter |-> counter, documents |-> m,
           storage |-> st]
     ELSE indexBatchFrom(1, k, m, st, cfg, counter, docs, embeddings.embeddings, t, setItemOk,
                         <<>>)

(***************************************************************************)
(* The chunker (src/src/processing/chunking.ts): chunkText splits a text   *)
(* into raw units by recursive separator splitting and renders one chunk   *)
(* per unit.  Strings are TLA+ strings; positions are 1-based here and     *)
(* 0-based in the offsets the chunks carry.                                *)
(***************************************************************************)
Alphabet == {"a", " ", "\n"}

\* the strings over Alphabet of length at most n
RECURSIVE StringsUpTo(_)
StringsUpTo(n) ==
  IF n = 0 THEN {""}
  ELSE LET shorter == StringsUpTo(n - 1)
       IN shorter \cup { s \o c : s \in { t \in shorter : Len(t) = n - 1 }, c \in Alphabet }

ChunkTexts == StringsUpTo(MaxText)

defaultChunkConfig ==
  [maxChunkSize |-> 1000, chunkOverlap |-> 200,
   separators |-> <<"\n\n", "\n", ". ", ", ", " ">>, preserveStructure |-> TRUE]

\* The Partial<ChunkConfig> values callers pass: every pair of sizes up to the
\* bound, maxChunkSize 0 and chunkOverlap not below maxChunkSize among them, with
\* the default separators,
\* with one separator and with none, and a size alone, which leaves chunkOverlap
\* at its default of 200.
ChunkOptions ==
  { [maxChunkSize |-> m, chunkOverlap |-> o] : m \in 0..MaxChunkSize, o \in 0..(MaxChunkSize - 1) }
  \cup { [maxChunkSize |-> m, chunkOverlap |-> o, separators |-> seps] :
           m \in 1..MaxChunkSize, o \in 0..(MaxChunkSize - 1), seps \in {<<>>, <<" ">>} }
  \cup { [maxChunkSize |-> m] : m \in 1..MaxChunkSize }

Max(a, b) == IF a >= b THEN a ELSE b

\* String.prototype.slice(start, end) for 0 <= start
Slice(s, start, end) == SubSeq(s, start + 1, Min(end, Len(s)))

\* String.prototype.slice(-n) for n > 0
SliceLast(s, n) == SubSeq(s, Max(1, Len(s) - n + 1), Len(s))

\* String.prototype.split(separator), the parts from position start on, the
\* scan standing at position i
RECURSIVE SplitFrom(_, _, _, _)
SplitFrom(text, separator, start, i) ==
  IF i + Len(separator) - 1 > Len(text) THEN << SubSeq(text, start, Len(text)) >>
  ELSE IF SubSeq(text, i, i + Len(separator) - 1) = separator
       THEN << SubSeq(text, start, i - 1) >>
            \o SplitFrom(text, separator, i + Len(separator), i + Len(separator))
       ELSE SplitFrom(text, separator, start, i + 1)

StringSplit(text, separator) ==
  IF separator = "" THEN [i \in 1..Len(text) |-> SubSeq(text, i, i)]
  ELSE SplitFrom(text, separator, 1, 1)

\* the characters String.prototype.trim removes, those of Alphabet among them
Whitespace == {" ", "\n", "\t", "\r"}

RECURSIVE trimStart(_)
trimStart(s) ==
  IF s # "" /\ SubSeq(s, 1, 1) \in Whitespace THEN trimStart(SubSeq(s, 2, Len(s))) ELSE s

RECURSIVE trimEnd(_)
trimEnd(s) ==
  IF s # "" /\ SubSeq(s, Len(s), Len(s)) \in Whitespace
  THEN trimEnd(SubSeq(s, 1, Len(s) - 1)) ELSE s

trimStartOnly(s) == trimStart(s)

trim(s) == trimEnd(trimStart(s))

\* A raw unit of splitRecursively: its text, whether the hard split cut it,
\* and whether the hard split's loop, which produced it, ever ends.
Unit(text, hard, loops) == [text |-> text, hard |-> hard, loops |-> loops]

\* the hard split's loop from offset i on, one window too wide
RECURSIVE hardSplitWide(_, _, _)
hardSplitWide(text, i, cfg) ==
  IF ~(i < Len(text)) THEN <<>>
  ELSE << Unit(Slice(text, i, i + cfg.maxChunkSize + 1), TRUE, FALSE) >>
       \o hardSplitWide(text, i + cfg.maxChunkSize - cfg.chunkOverlap, cfg)

\* the hard split's loop (for i; i < text.length; i += maxChunkSize - chunkOverlap)
RECURSIVE hardSplit(_, _, _)
hardSplit(text, i, cfg) ==
  IF ~(i < Len(text)) THEN <<>>
  ELSE << Unit(Slice(text, i, i + cfg.maxChunkSize), TRUE, FALSE) >>
       \o hardSplit(text, i + cfg.maxChunkSize - cfg.chunkOverlap, cfg)

RECURSIVE splitRecursively(_, _, _)
RECURSIVE splitParts(_, _, _, _, _, _)

\* the loop of splitRecursively over parts, from parts[i] on
splitParts(parts, i, current, result, separators, cfg) ==
  IF i > Len(parts)
  THEN IF current # "" THEN Append(result, Unit(current, FALSE, FALSE)) ELSE result
  ELSE LET part == parts[i]
           separator == separators[1]
           potentialChunk == IF current # "" THEN current \o separator \o part ELSE part
           pushed == IF current # "" THEN Append(result, Unit(current, FALSE, FALSE))
                     ELSE result
       IN IF Len(potentialChunk) <= cfg.maxChunkSize
          THEN splitParts(parts, i + 1, potentialChunk, result, separators, cfg)
          ELSE IF Len(part) > cfg.maxChunkSize
               THEN splitParts(parts, i + 1, "",
                               pushed \o splitRecursively(part, Tail(separators), cfg),
                               separators, cfg)
               ELSE splitParts(parts, i + 1, part, pushed, separators, cfg)

\* A stride of the hard split that is not positive never moves i past the end
\* of the text: the loop does not end.
splitRecursively(text, separators, cfg) ==
  IF Len(text) <= cfg.maxChunkSize THEN << Unit(text, FALSE, FALSE) >>
  ELSE IF Len(separators) = 0
       THEN IF cfg.maxChunkSize - cfg.chunkOverlap <= 0 THEN << Unit(text, TRUE, TRUE) >>
            ELSE hardSplit(text, 0, cfg)
       ELSE splitParts(StringSplit(text, separators[1]), 1, "", <<>>, separators, cfg)

\* the raw units of one chunkText call
rawChunks(text, options) ==
  LET cfg == Merge(defaultChunkConfig, options)
  IN splitRecursively(text, cfg.separators, cfg)

\* the loop of chunkText over rawChunks, from the unit of index i on
RECURSIVE chunksFrom(_, _, _, _)
chunksFrom(units, i, currentOffset, cfg) ==
  IF ~(i < Len(units)) THEN <<>>
  ELSE LET raw == units[i + 1].text
           content == IF i > 0 /\ cfg.chunkOverlap > 0
                      THEN SliceLast(units[i].text, cfg.chunkOverlap) \o raw
                      ELSE raw
       IN << [content |-> trim(content), index |-> i, startOffset |-> currentOffset,
              endOffset |-> currentOffset + Len(raw)] >>
          \o chunksFrom(units, i + 1, currentOffset + Len(raw), cfg)

\* chunkText: whether the call returns, and the chunks it returns
chunkText(text, options) ==
  LET cfg == Merge(defaultChunkConfig, options)
      units == rawChunks(text, options)
  IN IF \E i \in 1..Len(units) : units[i].loops
     THEN [returns |-> FALSE, chunks |-> <<>>]
     ELSE [returns |-> TRUE,
           chunks |-> SelectSeq(chunksFrom(units, 0, 0, cfg), LAMBDA c : Len(c.content) > 0)]

(***************************************************************************)
(* mergeSmallChunks.  The chunk objects live in a heap, a sequence of      *)
(* objects addressed by position, since the function copies some objects   *)
(* and assigns to fields of others: the array it is given holds the        *)
(* references 1..n, and the array it returns holds references too.         *)
(***************************************************************************)
Null == 0

\* the TextChunk objects callers pass: short and long contents under index
\* values that are their position or not
MergeInputs ==
  { [content |-> c, index |-> ix, startOffset |-> 0, endOffset |-> Len(c)] :
      c \in {"", "ab", "abcd"}, ix \in {0, 1, 7} }

MinSizes == {0, 1, 3, 5}

\* the loop of mergeSmallChunks with current = chunk in place of the copy
RECURSIVE mergeFromShared(_, _, _, _, _, _)
mergeFromShared(heap, chunks, i, current, merged, minSize) ==
  IF i > Len(chunks)
  THEN IF current # Null
       THEN [heap |-> [heap EXCEPT ![current].index = Len(merged)],
             merged |-> Append(merged, current)]
       ELSE [heap |-> heap, merged |-> merged]
  ELSE LET chunk == chunks[i]
       IN IF current = Null
          THEN mergeFromShared(heap, chunks, i + 1, chunk, merged, minSize)
          ELSE IF Len(heap[current].content) < minSize
               THEN mergeFromShared(
                      [heap EXCEPT ![current].content = @ \o "\n\n" \o heap[chunk].content,
                                   ![current].endOffset = heap[chunk].endOffset],
                      chunks, i + 1, current, merged, minSize)
               ELSE mergeFromShared(
                      Append(heap, [heap[chunk] EXCEPT !.index = Len(merged) + 1]),
                      chunks, i + 1, Len(heap) + 1, Append(merged, current), minSize)

\* the loop of mergeSmallChunks (for (const chunk of chunks)) from chunks[i] on,
\* and the lines after it
RECURSIVE mergeFrom(_, _, _, _, _, _)
mergeFrom(heap, chunks, i, current, merged, minSize) ==
  IF i > Len(chunks)
  THEN IF current # Null
       THEN [heap |-> [heap EXCEPT ![current].index = Len(merged)],
             merged |-> Append(merged, current)]
       ELSE [heap |-> heap, merged |-> merged]
  ELSE LET chunk == chunks[i]
       IN IF current = Null
          THEN mergeFrom(Append(heap, heap[chunk]), chunks, i + 1, Len(heap) + 1, merged,
                         minSize)
          ELSE IF Len(heap[current].content) < minSize
               THEN mergeFrom(
                      [heap EXCEPT ![current].content = @ \o "\n\n" \o heap[chunk].content,
                                   ![current].endOffset = heap[chunk].endOffset],
                      chunks, i + 1, current, merged, minSize)
               ELSE mergeFrom(
                      Append(heap, [heap[chunk] EXCEPT !.index = Len(merged) + 1]),
                      chunks, i + 1, Len(heap) + 1, Append(merged, current), minSize)

\* mergeSmallChunks on an array of n chunk objects: the objects of the array it
\* returns, and the objects of the array it was given as they are afterwards
mergeSmallChunks(objects, minSize) ==
  LET n == Len(objects)
      r == mergeFrom(objects, [i \in 1..n |-> i], 1, Null, <<>>, minSize)
  IN [merged |-> [i \in 1..Len(r.merged) |-> r.heap[r.merged[i]]],
      chunks |-> [i \in 1..n |-> r.heap[i]]]

(***************************************************************************)
(* The record of the last operation: which one it was and what it          *)
(* reported.                                                               *)
(***************************************************************************)
NoOp ==
  [op |-> "new", id |-> NoId, err |-> "none", evicted |-> NoId, done |-> 0, count |-> 0,
   saved |-> FALSE, found |-> FALSE, ids |-> <<>>, context |-> "",
   text |-> "", options |-> [f \in {} |-> f], returns |-> TRUE, chunks |-> <<>>,
   input |-> <<>>, minSize |-> 0, after |-> <<>>,
   type |-> "", maxTokens |-> 0, result |-> "", parts |-> <<>>,
   envKey |-> "undefined", provider |-> [class |-> "none"], requested |-> FALSE,
   stale |-> FALSE]

\* imports after import was called with docs
ImportsAfter(imp, cfg, docs) ==
  IF imp = "mismatch" \/ \E i \in 1..Len(docs) : Len(docs[i].embedding) # cfg.dimensions
  THEN "mismatch" ELSE "ok"

SeqsUpTo(S, n) == UNION { [1..k -> S] : k \in 0..n }

(***************************************************************************)
(* The token counters (src/src/processing/tokenization.ts):                *)
(* SimpleTokenCounter estimates by characters, GPTTokenCounter by words,   *)
(* punctuation and long words.  Indexes are 0-based as in the source.      *)
(***************************************************************************)
\* The texts given to the counters: up to MaxPieces pieces in a row, among them
\* a sentence end, a word boundary and a word of more than 10 characters.
Pieces == {"a", " ", ". ", "abcdef", "abcdefghijk"}

RECURSIVE Concat(_)
Concat(pieces) == IF pieces = <<>> THEN "" ELSE Head(pieces) \o Concat(Tail(pieces))

TokenTexts == { Concat(pieces) : pieces \in SeqsUpTo(Pieces, MaxPieces) }

CounterTypes == {"simple", "gpt"}

\* String.prototype.lastIndexOf(sub), searching down from index i
RECURSIVE LastIndexFrom(_, _, _)
LastIndexFrom(s, sub, i) ==
  IF i < 0 THEN -1
  ELSE IF SubSeq(s, i + 1, i + Len(sub)) = sub THEN i
       ELSE LastIndexFrom(s, sub, i - 1)

lastIndexOf(s, sub) == LastIndexFrom(s, sub, Len(s) - Len(sub))

\* SimpleTokenCounter.charsPerToken, at its default
charsPerToken == 4

SimpleTokenCounter_count(text) == (Len(text) + charsPerToken - 1) \div charsPerToken

\* the comparisons with maxChars * 0.7 and the like are taken in tenths
SimpleTokenCounter_truncate(text, maxTokens) ==
  LET maxChars == maxTokens * charsPerToken
      truncated == Slice(text, 0, maxChars)
      lastSentence == lastIndexOf(truncated, ". ")
      lastSpace == lastIndexOf(truncated, " ")
  IN IF Len(text) <= maxChars THEN text
     ELSE IF 10 * lastSentence > 7 * maxChars THEN Slice(truncated, 0, lastSentence + 1)
     ELSE IF 10 * lastSpace > 9 * maxChars THEN Slice(truncated, 0, lastSpace) \o "..."
     ELSE truncated \o "..."

\* Both split loops either shorten 'remaining' or leave it as it is; left as
\* it is, the next iteration does the same again and the loop never ends.
RECURSIVE SimpleTokenCounter_splitLoop(_, _, _)
SimpleTokenCounter_splitLoop(remaining, parts, maxTokens) ==
  LET maxChars == maxTokens * charsPerToken
      lastSentence == lastIndexOf(Slice(remaining, 0, maxChars), ". ")
      lastSpace == lastIndexOf(Slice(remaining, 0, maxChars), " ")
      splitPoint == IF 10 * lastSentence > 5 * maxChars THEN lastSentence + 1
                    ELSE IF 10 * lastSpace > 7 * maxChars THEN lastSpace
                    ELSE maxChars
      rest == trim(Slice(remaining, splitPoint, Len(remaining)))
  IN IF ~(Len(remaining) > 0) THEN [returns |-> TRUE, parts |-> parts]
     ELSE IF Len(remaining) <= maxChars
          THEN [returns |-> TRUE, parts |-> Append(parts, remaining)]
          ELSE IF rest = remaining THEN [returns |-> FALSE, parts |-> <<>>]
               ELSE SimpleTokenCounter_splitLoop(
                      rest, Append(parts, trim(Slice(remaining, 0, splitPoint))), maxTokens)

SimpleTokenCounter_split(text, maxTokens) == SimpleTokenCounter_splitLoop(text, <<>>, maxTokens)

\* text.split(/\s+/): the words from index i on, word being the one under way
RECURSIVE SplitWhitespace(_, _, _)
SplitWhitespace(text, i, word) ==
  IF i > Len(text) THEN <<word>>
  ELSE IF SubSeq(text, i, i) \in Whitespace
       THEN IF i < Len(text) /\ SubSeq(text, i + 1, i + 1) \in Whitespace
            THEN SplitWhitespace(text, i + 1, word)
            ELSE <<word>> \o SplitWhitespace(text, i + 1, "")
       ELSE SplitWhitespace(text, i + 1, word \o SubSeq(text, i, i))

\* the characters of /[.,!?;:'"()\[\]{}]/
Punctuation == {".", ",", "!", "?", ";", ":", "'", "\"", "(", ")", "[", "]", "{", "}"}

RECURSIVE SumSeq(_)
SumSeq(ns) == IF ns = <<>> THEN 0 ELSE Head(ns) + SumSeq(Tail(ns))

\* Math.ceil of words + punctuation * 0.5 + the long words' extra tokens
GPTTokenCounter_count(text) ==
  LET words == SplitWhitespace(text, 1, "")
      punctuation == Cardinality({ i \in 1..Len(text) : SubSeq(text, i, i) \in Punctuation })
      long == SumSeq([i \in 1..Len(words) |->
                        IF Len(words[i]) > 10 THEN Len(words[i]) \div 5 ELSE 0])
  IN Len(words) + long + (punctuation + 1) \div 2

\* the binary search of GPTTokenCounter.truncate: the value of low after it
RECURSIVE BinarySearch(_, _, _, _)
BinarySearch(text, maxTokens, low, high) ==
  IF ~(high - low > 10) THEN low
  ELSE LET mid == (low + high) \div 2
       IN IF GPTTokenCounter_count(Slice(text, 0, mid)) <= maxTokens
          THEN BinarySearch(text, maxTokens, mid, high)
          ELSE BinarySearch(text, maxTokens, low, mid)

GPTTokenCounter_truncate(text, maxTokens) ==
  IF GPTTokenCounter_count(text) <= maxTokens THEN text
  ELSE LET low == BinarySearch(text, maxTokens, 0, Len(text))
           truncated == Slice(text, 0, low)
           lastSentence == lastIndexOf(truncated, ". ")
       IN IF 10 * lastSentence > 7 * low THEN trim(Slice(truncated, 0, lastSentence + 1))
          ELSE trim(truncated)

RECURSIVE GPTTokenCounter_splitLoop(_, _, _)
GPTTokenCounter_splitLoop(remaining, parts, maxTokens) ==
  LET truncated == GPTTokenCounter_truncate(remaining, maxTokens)
      rest == trim(Slice(remaining, Len(truncated), Len(remaining)))
  IN IF ~(Len(remaining) > 0) THEN [returns |-> TRUE, parts |-> parts]
     ELSE IF GPTTokenCounter_count(remaining) <= maxTokens
          THEN [returns |-> TRUE, parts |-> Append(parts, remaining)]
          ELSE IF rest = remaining THEN [returns |-> FALSE, parts |-> <<>>]
               ELSE GPTTokenCounter_splitLoop(rest, Append(parts, truncated), maxTokens)

GPTTokenCounter_split(text, maxTokens) == GPTTokenCounter_splitLoop(text, <<>>, maxTokens)

\* the TokenCounter that createTokenCounter(type) returns
count(type, text) ==
  IF type = "gpt" THEN GPTTokenCounter_count(text) ELSE SimpleTokenCounter_count(text)

truncate(type, text, maxTokens) ==
  IF type = "gpt" THEN GPTTokenCounter_truncate(text, maxTokens)
  ELSE SimpleTokenCounter_truncate(text, maxTokens)

split(type, text, maxTokens) ==
  IF type = "gpt" THEN GPTTokenCounter_split(text, maxTokens)
  ELSE SimpleTokenCounter_split(text, maxTokens)

(***************************************************************************)
(* The embedding providers (src/unnamed/part_009): createEmbeddingProvider *)
(* and the remote provider's embed and embedBatch.  The remote service     *)
(* answers a request or refuses it.                                        *)
(***************************************************************************)
NoProvider == [class |-> "none"]

\* import.meta.env.VITE_OPENAI_API_KEY: set or not
EnvKeys == {Undefined, "sk-env"}

defaultEmbeddingConfig(envKey) ==
  [provider |-> "openai", model |-> "text-embedding-3-small", dimensions |-> 1536,
   apiKey |-> envKey]

\* the Partial<EmbeddingConfig> values callers pass
EmbeddingOptions ==
  { [f \in {} |-> f] }
  \cup { [provider |-> p] : p \in {"openai", "local"} }
  \cup { [apiKey |-> k] : k \in {"", "sk-1"} }
  \cup { [provider |-> p, apiKey |-> k] : p \in {"openai", "local"}, k \in {"", "sk-1"} }

\* !apiKey
Falsy(v) == v = Undefined \/ v = ""

createEmbeddingProvider(envKey, options) ==
  LET mergedConfig == Merge(defaultEmbeddingConfig(envKey), options)
  IN IF mergedConfig.provider = "openai"
     THEN [class |-> "OpenAIEmbeddingProvider", config |-> mergedConfig]
     ELSE [class |-> "LocalEmbeddingProvider", config |-> mergedConfig]

\* OpenAIEmbeddingProvider.embedBatch: the error it throws, whether it sent a
\* request, and the results
OpenAIEmbeddingProvider_embedBatch(provider, texts, responseOk) ==
  IF Falsy(provider.config.apiKey)
  THEN [err |-> "ApiKeyRequired", requested |-> FALSE, results |-> <<>>]
  ELSE IF ~responseOk
       THEN [err |-> "ProviderError", requested |-> TRUE, results |-> <<>>]
       ELSE [err |-> "none", requested |-> TRUE,
             results |-> [i \in 1..Len(texts) |->
                            [embedding |-> Embed(texts[i]), text |-> texts[i],
                             model |-> provider.config.model,
                             dimensions |-> Len(Embed(texts[i]))]]]

\* OpenAIEmbeddingProvider.embed
OpenAIEmbeddingProvider_embed(provider, text, responseOk) ==
  LET r == OpenAIEmbeddingProvider_embedBatch(provider, <<text>>, responseOk)
  IN [err |-> r.err, requested |-> r.requested,
      results |-> IF r.err = "none" THEN <<r.results[1]>> ELSE <<>>]

(***************************************************************************)
(* Asynchronous callers of one store.  A call runs until its next await    *)
(* and goes on in a later step: index, indexBatch and retrieve await the   *)
(* embedding provider, PersistentVectorStore.add awaits super.add before   *)
(* it saves, and addBatch and indexBatch await every add.                  *)
(* InMemoryVectorStore.add has no await in it, delete and clear are not    *)
(* async: each is one step.  A call in flight is                           *)
(*   pc      "embed" (the provider has not answered), "add" (the next add  *)
(*           of the loop has not started) or "save" (super.add has run,    *)
(*           save has not),                                                *)
(*   op      the function called,                                          *)
(*   pending the documents it has still to add (the query, for retrieve),  *)
(*   ix      the Indexer, added  the id its last add stored.               *)
(***************************************************************************)
Call(pc, op, pending, ix) ==
  [pc |-> pc, op |-> op, pending |-> pending, ix |-> ix, added |-> NoId]

\* the documents index and indexBatch will add, their id not yet generated
Drafts(docs) ==
  [i \in 1..Len(docs) |->
     [id |-> NoId, content |-> docs[i].content, embedding |-> Embed(docs[i].content),
      metadata |-> docs[i].metadata]]

\* the ids the indexBatch calls in flight have still to generate
Reserved(calls) ==
  SumSeq([c \in 1..Cardinality(Callers) |->
            IF calls[c].pc # "idle" /\ calls[c].op = "indexBatch"
            THEN Len(calls[c].pending) ELSE 0])

\* the call after one of its adds went through
AfterAdd(k, call, id) ==
  IF k = "persistent"
  THEN [call EXCEPT !.pc = "save", !.pending = Tail(@), !.added = id]
  ELSE IF Tail(call.pending) = <<>> THEN IdleCall
       ELSE [call EXCEPT !.pc = "add", !.pending = Tail(@)]

\* a save that writes the document the call added and no other
saveOwn(m, st, call, setItemOk) ==
  IF setItemOk
  THEN [state |-> "json",
        docs |-> Stringify(SelectSeq(export(m), LAMBDA d : d.id = call.added))]
  ELSE st

\* this.save() of PersistentVectorStore.add, run after the await
saveAfterAdd(m, st, call, setItemOk) == save(m, st, setItemOk)

\* the outcomes of the external storage write, where there is one
SetItemOutcomes == IF kind = "persistent" THEN BOOLEAN ELSE {TRUE}

\* addRun after one successful add of id
RunAdd(run, id) ==
  IF run.valid /\ id \notin { run.ids[i] : i \in 1..Len(run.ids) }
  THEN [valid |-> TRUE, ids |-> Append(run.ids, id)]
  ELSE [valid |-> FALSE, ids |-> <<>>]

RECURSIVE RunAddAll(_, _, _)
RunAddAll(run, docs, n) ==
  IF n = 0 THEN run ELSE RunAdd(RunAddAll(run, docs, n - 1), docs[n].id)

\* addRun after an operation that is not an add
RunReset(m) == [valid |-> MapSize(m) = 0, ids |-> <<>>]

(***************************************************************************)
(* Initial state: a store just constructed.  A persistent store has run    *)
(* load on a storage that holds nothing or an undecodable value.           *)
(***************************************************************************)
Configs ==
  { [dimensions |-> Dimensions, maxDocuments |-> c, similarityMetric |-> "cosine"] :
      c \in 0..MaxCapacity }
  \cup { [dimensions |-> Dimensions, maxDocuments |-> 1, similarityMetric |-> "euclidean"] }

InitStore(k, cfgs) ==
  /\ kind = k
  /\ config \in cfgs
  /\ storage \in (IF k = "persistent" THEN {Absent, Corrupt, NotArray} ELSE {Absent})
  /\ documents = load(EmptyMap, storage)
  /\ now = 0
  /\ imports = "none"
  /\ addRun = [valid |-> TRUE, ids |-> <<>>]
  /\ last = NoOp
  /\ idCounter = [i \in Indexers |-> 0]
  /\ issued = {}
  /\ inflight = [c \in Callers |-> IdleCall]

Init == InitStore("memory", Configs)

\* stores with a capacity, which an import can take over it
InitImport == InitStore("memory", { c \in Configs : c.maxDocuments > 0 })

InitPersistent ==
  InitStore("persistent", { c \in Configs : c.maxDocuments = 1 /\ c.similarityMetric = "cosine" })

\* time passes between two operations
Tick ==
  /\ now < MaxTime
  /\ now' = now + 1
  /\ UNCHANGED <<inflight, idCounter, issued, kind, config, documents, storage, imports, addRun, last>>

Add ==
  \E doc \in InputDocs, setItemOk \in SetItemOutcomes :
    \E r \in { storeAdd(kind, documents, storage, config, doc, now, setItemOk) } :
       /\ documents' = r.documents
       /\ storage' = r.storage
       /\ addRun' = IF r.err = "none" THEN RunAdd(addRun, doc.id) ELSE addRun
       /\ last' = [NoOp EXCEPT !.op = "add", !.id = doc.id, !.err = r.err,
                               !.evicted = r.evicted, !.saved = r.saved,
                               !.done = IF r.err = "none" THEN 1 ELSE 0]
       /\ UNCHANGED <<inflight, idCounter, issued, kind, config, now, imports>>

\* The adds of one batch read the same clock value and meet the same storage
\* here; a run in which time passes or the storage fails between them is the
\* run of Add, Tick, Add.
AddBatch ==
  \E docs \in SeqsUpTo(BatchDocs, MaxBatch) :
    \E setItemOk \in SetItemOutcomes :
      \E r \in { addBatch(kind, documents, storage, config, docs,
                           [i \in 1..Len(docs) |-> now],
                           [i \in 1..Len(docs) |-> setItemOk]) } :
            /\ documents' = r.documents
            /\ storage' = r.storage
            /\ addRun' = RunAddAll(addRun, docs, r.done)
            /\ last' = [NoOp EXCEPT !.op = "addBatch", !.err = r.err, !.done = r.done,
                                    !.count = Len(docs),
                                    !.saved = (kind = "persistent" /\ r.done >= 1 /\ setItemOk)]
            /\ UNCHANGED <<inflight, idCounter, issued, kind, config, now, imports>>

Search ==
  \E query \in Queries, topK \in 0..MaxTopK, filter \in Filters :
    \E r \in { search(documents, config, query, topK, filter) } :
       /\ last' = [NoOp EXCEPT !.op = "search", !.err = r.err, !.count = Len(r.results)]
       /\ UNCHANGED <<inflight, idCounter, issued, kind, config, documents, now, storage, imports, addRun>>

Get ==
  \E id \in Ids :
    /\ last' = [NoOp EXCEPT !.op = "get", !.id = id, !.found = MapHas(documents, id)]
    /\ UNCHANGED <<inflight, idCounter, issued, kind, config, documents, now, storage, imports, addRun>>

\* delete; PersistentVectorStore.delete saves when a document was removed
Delete ==
  \E id \in Ids, setItemOk \in SetItemOutcomes :
    LET result == MapHas(documents, id)
        m == MapDelete(documents, id)
    IN /\ documents' = m
       /\ storage' = IF kind = "persistent" /\ result THEN save(m, storage, setItemOk)
                     ELSE storage
       /\ addRun' = IF result THEN RunReset(m) ELSE addRun
       /\ last' = [NoOp EXCEPT !.op = "delete", !.id = id, !.found = result,
                               !.saved = (kind = "persistent" /\ result /\ setItemOk)]
       /\ UNCHANGED <<inflight, idCounter, issued, kind, config, now, imports>>

\* clear; PersistentVectorStore.clear saves
Clear ==
  \E setItemOk \in SetItemOutcomes :
    /\ documents' = EmptyMap
    /\ storage' = IF kind = "persistent" THEN save(EmptyMap, storage, setItemOk) ELSE storage
    /\ addRun' = RunReset(EmptyMap)
    /\ last' = [NoOp EXCEPT !.op = "clear", !.saved = (kind = "persistent" /\ setItemOk)]
    /\ UNCHANGED <<inflight, idCounter, issued, kind, config, now, imports>>

\* import(docs) called on the store by its user
Import ==
  \E docs \in SeqsUpTo(ImportDocs, MaxImport) :
    /\ documents' = import(documents, docs)
    /\ imports' = ImportsAfter(imports, config, docs)
    /\ addRun' = RunReset(documents')
    /\ last' = [NoOp EXCEPT !.op = "import", !.count = Len(docs)]
    /\ UNCHANGED <<inflight, idCounter, issued, kind, config, now, storage>>

\* export() of this store, and import of the result into a fresh store of the
\* same configuration
ExportImport ==
  /\ last' = [NoOp EXCEPT !.op = "export",
                          !.count = MapSize(import(EmptyMap, export(documents)))]
  /\ UNCHANGED <<inflight, idCounter, issued, kind, config, documents, now, storage, imports, addRun>>

\* a new PersistentVectorStore is constructed with the same key and configuration
\* and replaces this one: the constructor runs load
Reopen ==
  /\ kind = "persistent"
  /\ documents' = load(EmptyMap, storage)
  /\ imports' = IF storage.state = "json" THEN ImportsAfter("none", config, storage.docs)
                ELSE "none"
  /\ addRun' = RunReset(documents')
  /\ last' = [NoOp EXCEPT !.op = "reopen"]
  /\ UNCHANGED <<inflight, idCounter, issued, kind, config, now, storage>>

\* an in-memory store on which import is not called
Next ==
  \/ Tick
  \/ Add
  \/ AddBatch
  \/ Search
  \/ Get
  \/ Delete
  \/ Clear
  \/ ExportImport

Spec == Init /\ [][Next]_vars

\* an in-memory store whose user also calls import
NextImport ==
  \/ Tick
  \/ Add
  \/ Search
  \/ Get
  \/ Delete
  \/ Clear
  \/ Import
  \/ ExportImport

SpecImport == InitImport /\ [][NextImport]_vars

\* a store that is filled, by add and by import, and searched; its documents are
\* stamped with one clock reading, which search does not look at
InitSearch == InitStore("memory", { c \in Configs : c.maxDocuments <= 1 })

NextSearch ==
  \/ Add
  \/ Delete
  \/ Import
  \/ Search

SpecSearch == InitSearch /\ [][NextSearch]_vars

\* the ids the Indexers may still generate
IdsLeft == MaxIndexed - (idCounter[1] + idCounter[2])

\* Indexer.index of one of the Indexers
Index ==
  \E ix \in Indexers, d \in IndexDocs, ok \in BOOLEAN, setItemOk \in SetItemOutcomes :
    /\ IdsLeft >= 1
    /\ \E r \in { index(kind, documents, storage, config, idCounter[ix], d.content, d.metadata,
                          now, ok, setItemOk) } :
         /\ documents' = r.documents
         /\ storage' = r.storage
         /\ idCounter' = [idCounter EXCEPT ![ix] = r.idCounter]
         /\ issued' = IF r.err = "none" THEN issued \cup {r.id} ELSE issued
         /\ addRun' = RunReset(r.documents)
         /\ last' = [NoOp EXCEPT !.op = "index", !.id = r.id, !.err = r.err,
                                 !.evicted = r.evicted,
                                 !.ids = IF r.err = "none" THEN <<r.id>> ELSE <<>>]
         /\ UNCHANGED <<inflight, kind, config, now, imports>>

\* Indexer.indexBatch of one of the Indexers
IndexBatch ==
  \E ix \in Indexers, ok \in BOOLEAN, setItemOk \in SetItemOutcomes :
    \E docs \in SeqsUpTo(IndexDocs, Min(MaxBatch, IdsLeft)) :
      \E r \in { indexBatch(kind, documents, storage, config, idCounter[ix], docs, now, ok,
                              setItemOk) } :
         /\ documents' = r.documents
         /\ storage' = r.storage
         /\ idCounter' = [idCounter EXCEPT ![ix] = r.idCounter]
         /\ issued' = issued \cup { NewId(now, c) :
                                      c \in idCounter[ix]..(IF r.err = "none" THEN r.idCounter - 1
                                                            ELSE r.idCounter - 2) }
         /\ addRun' = RunReset(r.documents)
         /\ last' = [NoOp EXCEPT !.op = "indexBatch", !.err = r.err, !.ids = r.ids,
                                 !.count = Len(docs)]
         /\ UNCHANGED <<inflight, kind, config, now, imports>>

\* Retriever.retrieve
Retrieve ==
  \E query \in Texts, options \in RetrieveOptions, ok \in BOOLEAN :
    \E r \in { retrieve(documents, config, options, query, ok) } :
       /\ last' = [NoOp EXCEPT !.op = "retrieve", !.err = r.err, !.count = Len(r.documents),
                               !.done = r.totalResults, !.context = r.context]
       /\ UNCHANGED <<inflight, idCounter, issued, kind, config, documents, now, storage, imports, addRun>>

\* a store with a Retriever and two Indexers attached
InitRag == InitStore("memory", { c \in Configs : c.maxDocuments <= 1 })

NextRag ==
  \/ Tick
  \/ Index
  \/ IndexBatch
  \/ Retrieve

SpecRag == InitRag /\ [][NextRag]_vars

\* the same at one clock reading, which retrieve does not look at
NextRetrieve ==
  \/ Index
  \/ IndexBatch
  \/ Retrieve

SpecRetrieve == InitRag /\ [][NextRetrieve]_vars

\* a caller about to chunk one text under one Partial<ChunkConfig>, next to a
\* store that takes no part in it
InitChunk ==
  /\ kind = "memory"
  /\ config \in { c \in Configs : c.maxDocuments = 0 }
  /\ storage = Absent
  /\ documents = EmptyMap
  /\ now = 0
  /\ imports = "none"
  /\ addRun = [valid |-> TRUE, ids |-> <<>>]
  /\ idCounter = [i \in Indexers |-> 0]
  /\ issued = {}
  /\ inflight = [c \in Callers |-> IdleCall]
  /\ \E text \in ChunkTexts, options \in ChunkOptions :
       last = [NoOp EXCEPT !.text = text, !.options = options]

\* chunkText(text, options)
ChunkText ==
  /\ last.op = "new"
  /\ \E r \in { chunkText(last.text, last.options) } :
       last' = [last EXCEPT !.op = "chunkText", !.returns = r.returns, !.chunks = r.chunks]
  /\ UNCHANGED <<inflight, idCounter, issued, kind, config, documents, now, storage, imports, addRun>>

NextChunk == ChunkText

SpecChunk == InitChunk /\ [][NextChunk]_vars

\* a caller about to merge one array of chunks
InitMerge ==
  /\ kind = "memory"
  /\ config \in { c \in Configs : c.maxDocuments = 0 }
  /\ storage = Absent
  /\ documents = EmptyMap
  /\ now = 0
  /\ imports = "none"
  /\ addRun = [valid |-> TRUE, ids |-> <<>>]
  /\ idCounter = [i \in Indexers |-> 0]
  /\ issued = {}
  /\ inflight = [c \in Callers |-> IdleCall]
  /\ \E input \in SeqsUpTo(MergeInputs, MaxChunks), minSize \in MinSizes :
       last = [NoOp EXCEPT !.input = input, !.minSize = minSize]

\* mergeSmallChunks(chunks, minSize)
MergeSmallChunks ==
  /\ last.op = "new"
  /\ \E r \in { mergeSmallChunks(last.input, last.minSize) } :
       last' = [last EXCEPT !.op = "mergeSmallChunks", !.chunks = r.merged, !.after = r.chunks]
  /\ UNCHANGED <<inflight, idCounter, issued, kind, config, documents, now, storage, imports, addRun>>

NextMerge == MergeSmallChunks

SpecMerge == InitMerge /\ [][NextMerge]_vars

\* a caller holding one of the two token counters, a text and a limit
InitTokens ==
  /\ kind = "memory"
  /\ config \in { c \in Configs : c.maxDocuments = 0 }
  /\ storage = Absent
  /\ documents = EmptyMap
  /\ now = 0
  /\ imports = "none"
  /\ addRun = [valid |-> TRUE, ids |-> <<>>]
  /\ idCounter = [i \in Indexers |-> 0]
  /\ issued = {}
  /\ inflight = [c \in Callers |-> IdleCall]
  /\ \E type \in CounterTypes, text \in TokenTexts, maxTokens \in 0..MaxTokens :
       last = [NoOp EXCEPT !.type = type, !.text = text, !.maxTokens = maxTokens]

\* TokenCounter.truncate(text, maxTokens)
Truncate ==
  /\ last.op = "new"
  /\ last' = [last EXCEPT !.op = "truncate",
                          !.result = truncate(last.type, last.text, last.maxTokens)]
  /\ UNCHANGED <<inflight, idCounter, issued, kind, config, documents, now, storage, imports, addRun>>

\* TokenCounter.split(text, maxTokens)
Split ==
  /\ last.op = "new"
  /\ \E r \in { split(last.type, last.text, last.maxTokens) } :
       last' = [last EXCEPT !.op = "split", !.returns = r.returns, !.parts = r.parts]
  /\ UNCHANGED <<inflight, idCounter, issued, kind, config, documents, now, storage, imports, addRun>>

NextTokens ==
  \/ Truncate
  \/ Split

SpecTokens == InitTokens /\ [][NextTokens]_vars

\* an application with its environment read and no embedding provider yet
InitProvider ==
  /\ kind = "memory"
  /\ config \in { c \in Configs : c.maxDocuments = 0 }
  /\ storage = Absent
  /\ documents = EmptyMap
  /\ now = 0
  /\ imports = "none"
  /\ addRun = [valid |-> TRUE, ids |-> <<>>]
  /\ idCounter = [i \in Indexers |-> 0]
  /\ issued = {}
  /\ inflight = [c \in Callers |-> IdleCall]
  /\ \E envKey \in EnvKeys : last = [NoOp EXCEPT !.envKey = envKey]

\* createEmbeddingProvider(config)
CreateEmbeddingProvider ==
  /\ last.provider = NoProvider
  /\ \E options \in EmbeddingOptions :
       last' = [last EXCEPT !.op = "createEmbeddingProvider",
                            !.provider = createEmbeddingProvider(last.envKey, options)]
  /\ UNCHANGED <<inflight, idCounter, issued, kind, config, documents, now, storage, imports, addRun>>

\* embed(text) on the remote provider
ProviderEmbed ==
  /\ last.provider.class = "OpenAIEmbeddingProvider"
  /\ \E text \in Texts, responseOk \in BOOLEAN :
       \E r \in { OpenAIEmbeddingProvider_embed(last.provider, text, responseOk) } :
          last' = [last EXCEPT !.op = "embed", !.err = r.err, !.requested = r.requested,
                               !.text = text, !.count = Len(r.results)]
  /\ UNCHANGED <<inflight, idCounter, issued, kind, config, documents, now, storage, imports, addRun>>

\* embedBatch(texts) on the remote provider
ProviderEmbedBatch ==
  /\ last.provider.class = "OpenAIEmbeddingProvider"
  /\ \E texts \in SeqsUpTo(Texts, MaxBatch), responseOk \in BOOLEAN :
       \E r \in { OpenAIEmbeddingProvider_embedBatch(last.provider, texts, responseOk) } :
          last' = [last EXCEPT !.op = "embedBatch", !.err = r.err, !.requested = r.requested,
                               !.input = texts, !.count = Len(r.results)]
  /\ UNCHANGED <<inflight, idCounter, issued, kind, config, documents, now, storage, imports, addRun>>

NextProvider ==
  \/ CreateEmbeddingProvider
  \/ ProviderEmbed
  \/ ProviderEmbedBatch

SpecProvider == InitProvider /\ [][NextProvider]_vars

\* the documents the asynchronous callers pass to add
AsyncDocs == { d \in InputDocs : d.content = "x" /\ d.id \in {"a", "b"} }

\* the documents they pass to index and indexBatch: one whose embedding has the
\* configured length and one whose embedding has not
AsyncIndexDocs == { d \in IndexDocs : d.content \in {"ab", "q"} }

\* the most recent write of the storage threw
StaleAfter(wrote, setItemOk) == IF wrote THEN ~setItemOk ELSE last.stale

\* One add of a call: Head(call.pending), under a new id in indexBatch.
RunAsyncAdd(c, call) ==
  LET fresh == call.op = "indexBatch"
      doc == IF fresh THEN [Head(call.pending) EXCEPT !.id = NewId(now, idCounter[call.ix])]
             ELSE Head(call.pending)
  IN \E r \in { add(documents, config, doc, now) } :
       /\ documents' = r.documents
       /\ idCounter' = IF fresh THEN [idCounter EXCEPT ![call.ix] = @ + 1] ELSE idCounter
       /\ issued' = IF call.op \in {"index", "indexBatch"} /\ r.err = "none"
                    THEN issued \cup {doc.id} ELSE issued
       /\ inflight' = [inflight EXCEPT ![c] = IF r.err # "none" THEN IdleCall
                                              ELSE AfterAdd(kind, call, doc.id)]
       /\ addRun' = RunReset(r.documents)
       /\ last' = [NoOp EXCEPT !.stale = last.stale]
       /\ UNCHANGED <<kind, config, now, storage, imports>>

\* a caller calls add(doc): super.add runs at once
StartAdd ==
  \E c \in Callers, doc \in AsyncDocs :
    /\ inflight[c] = IdleCall
    /\ RunAsyncAdd(c, Call("add", "add", <<doc>>, c))

\* a caller calls addBatch(docs): the first add runs at once
StartAddBatch ==
  \E c \in Callers, docs \in SeqsUpTo(BatchDocs, Min(MaxBatch, 2)) :
    /\ inflight[c] = IdleCall
    /\ docs # <<>>
    /\ RunAsyncAdd(c, Call("add", "addBatch", docs, c))

\* a caller calls index: the id is generated, then the provider is awaited
StartIndex ==
  \E c \in Callers, d \in AsyncIndexDocs : \E ix \in {c} :
    /\ inflight[c] = IdleCall
    /\ IdsLeft - Reserved(inflight) >= 1
    /\ idCounter' = [idCounter EXCEPT ![ix] = @ + 1]
    /\ inflight' = [inflight EXCEPT ![c] =
                      Call("embed", "index",
                           << [Drafts(<<d>>)[1] EXCEPT !.id = NewId(now, idCounter[ix])] >>,
                           ix)]
    /\ last' = [NoOp EXCEPT !.stale = last.stale]
    /\ UNCHANGED <<kind, config, documents, now, storage, imports, addRun, issued>>

\* a caller calls indexBatch: the provider is awaited for the whole batch
StartIndexBatch ==
  \E c \in Callers : \E ix \in {c} :
    \E docs \in SeqsUpTo(AsyncIndexDocs, Min(MaxBatch, IdsLeft - Reserved(inflight))) :
      /\ inflight[c] = IdleCall
      /\ docs # <<>>
      /\ inflight' = [inflight EXCEPT ![c] = Call("embed", "indexBatch", Drafts(docs), ix)]
      /\ last' = [NoOp EXCEPT !.stale = last.stale]
      /\ UNCHANGED <<kind, config, documents, now, storage, imports, addRun, idCounter, issued>>

\* a caller calls retrieve: the provider is awaited for the query
StartRetrieve ==
  \E c \in Callers, query \in {"ab"} :
    /\ inflight[c] = IdleCall
    /\ inflight' = [inflight EXCEPT ![c] = Call("embed", "retrieve", <<query>>, c)]
    /\ last' = [NoOp EXCEPT !.stale = last.stale]
    /\ UNCHANGED <<kind, config, documents, now, storage, imports, addRun, idCounter, issued>>

\* the provider answers or fails: index and indexBatch go on to their first
\* add, retrieve searches and returns
ResumeEmbed ==
  \E c \in Callers, ok \in BOOLEAN :
    /\ inflight[c].pc = "embed"
    /\ IF ok /\ inflight[c].op # "retrieve"
       THEN RunAsyncAdd(c, inflight[c])
       ELSE /\ inflight' = [inflight EXCEPT ![c] = IdleCall]
            /\ \E r \in { retrieve(documents, config, [f \in {} |-> f],
                                     inflight[c].pending[1], ok) } :
                 last' = [NoOp EXCEPT !.count = IF ok THEN Len(r.documents) ELSE 0,
                                      !.stale = last.stale]
            /\ UNCHANGED <<kind, config, documents, now, storage, imports, addRun, idCounter,
                           issued>>

\* the loop of addBatch or indexBatch goes on to its next add
ResumeAdd ==
  \E c \in Callers :
    /\ inflight[c].pc = "add"
    /\ RunAsyncAdd(c, inflight[c])

\* PersistentVectorStore.add goes on after its await: save
ResumeSave ==
  \E c \in Callers, setItemOk \in BOOLEAN :
    /\ inflight[c].pc = "save"
    /\ storage' = saveAfterAdd(documents, storage, inflight[c], setItemOk)
    /\ inflight' = [inflight EXCEPT ![c] = IF inflight[c].pending = <<>> THEN IdleCall
                                           ELSE [inflight[c] EXCEPT !.pc = "add",
                                                                    !.added = NoId]]
    /\ last' = [NoOp EXCEPT !.stale = ~setItemOk]
    /\ UNCHANGED <<kind, config, documents, now, imports, addRun, idCounter, issued>>

\* delete(id) by some caller, in one step
AsyncDelete ==
  \E id \in Ids, setItemOk \in SetItemOutcomes :
    LET result == MapHas(documents, id)
        m == MapDelete(documents, id)
        wrote == kind = "persistent" /\ result
    IN /\ documents' = m
       /\ storage' = IF wrote THEN save(m, storage, setItemOk) ELSE storage
       /\ addRun' = IF result THEN RunReset(m) ELSE addRun
       /\ last' = [NoOp EXCEPT !.stale = StaleAfter(wrote, setItemOk)]
       /\ UNCHANGED <<kind, config, now, imports, idCounter, issued, inflight>>

\* clear() by some caller, in one step
AsyncClear ==
  \E setItemOk \in SetItemOutcomes :
    LET wrote == kind = "persistent"
    IN /\ documents' = EmptyMap
       /\ storage' = IF wrote THEN save(EmptyMap, storage, setItemOk) ELSE storage
       /\ addRun' = RunReset(EmptyMap)
       /\ last' = [NoOp EXCEPT !.stale = StaleAfter(wrote, setItemOk)]
       /\ UNCHANGED <<kind, config, now, imports, idCounter, issued, inflight>>

\* a store of either kind with capacity for one document, and each caller's
\* own Indexer
InitAsync ==
  \/ InitStore("memory", { c \in Configs : c.maxDocuments = 1 /\ c.similarityMetric = "cosine" })
  \/ InitPersistent

NextAsync ==
  \/ StartAdd
  \/ StartAddBatch
  \/ StartIndex
  \/ StartIndexBatch
  \/ StartRetrieve
  \/ ResumeEmbed
  \/ ResumeAdd
  \/ ResumeSave
  \/ AsyncDelete
  \/ AsyncClear

SpecAsync == InitAsync /\ [][NextAsync]_vars

\* a persistent store, reopened from its storage key at any time
NextPersistent ==
  \/ Tick
  \/ Add
  \/ AddBatch
  \/ Delete
  \/ Clear
  \/ Reopen

SpecPersistent == InitPersistent /\ [][NextPersistent]_vars

TypeOK ==
  /\ kind \in {"memory", "persistent"}
  /\ now \in 0..MaxTime
  /\ imports \in {"none", "ok", "mismatch"}
  /\ Len(documents.order) = Cardinality(DOMAIN documents.val)
  /\ MapKeys(documents) = DOMAIN documents.val
  /\ \A k \in DOMAIN documents.val : documents.val[k].id = k

(***************************************************************************)
(* Properties                                                              *)
(***************************************************************************)
GoodLength(v) == Len(v) = config.dimensions

Size == MapSize(documents)

Stored == { documents.val[k] : k \in DOMAIN documents.val }

\* C1: add of a document whose embedding length is not config.dimensions and
\* search with a query whose length is not config.dimensions fail with a
\* dimension-mismatch error, and the step leaves documents (ids, contents,
\* embeddings, createdAt, size) and the storage as they were.
C1_MismatchFailsAndLeavesStore ==
  /\ [](/\ \A doc \in InputDocs, setItemOk \in BOOLEAN :
            ~GoodLength(doc.embedding) =>
              LET r == storeAdd(kind, documents, storage, config, doc, now, setItemOk)
              IN r.err = "DimensionMismatch" /\ r.documents = documents /\ r.storage = storage
        /\ \A query \in Queries, topK \in 0..MaxTopK, filter \in Filters :
            ~GoodLength(query) =>
              search(documents, config, query, topK, filter).err = "DimensionMismatch")
  /\ [][last'.op \in {"add", "search"} /\ last'.err = "DimensionMismatch"
          => documents' = documents /\ storage' = storage]_vars

C1_Witness ==
  /\ last.op = "add"
  /\ last.err = "DimensionMismatch"
  /\ Size >= 1

\* C2: on a store with maxDocuments = N > 0 on which import is never called,
\* size() <= N after every operation.
C2_SizeWithinCapacity ==
  (config.maxDocuments > 0 /\ imports = "none") => Size <= config.maxDocuments

C2_Witness ==
  /\ last.op = "add"
  /\ last.evicted # NoId
  /\ imports = "none"
  /\ config.maxDocuments = 2
  /\ Size = 2

\* the last n elements of s
Suffix(s, n) == SubSeq(s, Len(s) - Min(n, Len(s)) + 1, Len(s))

Range(s) == { s[i] : i \in 1..Len(s) }

\* C3: an add of an id not in the store that finds size() >= maxDocuments removes
\* exactly one document, one whose createdAt is the oldest, and keeps the others;
\* get and search change nothing; after k adds of distinct ids to an empty store
\* with maxDocuments = N the store holds exactly the min(k, N) most recently added.
C3_EvictsOldestByCreatedAt ==
  /\ [](/\ \A doc \in InputDocs :
            (/\ GoodLength(doc.embedding)
             /\ ~MapHas(documents, doc.id)
             /\ config.maxDocuments > 0
             /\ Size >= config.maxDocuments) =>
              \A r \in { add(documents, config, doc, now) } :
                /\ r.evicted \in MapKeys(documents)
                /\ \A d \in Stored : documents.val[r.evicted].createdAt <= d.createdAt
                /\ MapKeys(r.documents) = (MapKeys(documents) \ {r.evicted}) \cup {doc.id}
                /\ \A k \in MapKeys(documents) \ {r.evicted} :
                     r.documents.val[k] = documents.val[k]
        /\ (addRun.valid /\ config.maxDocuments > 0) =>
              MapKeys(documents) = Range(Suffix(addRun.ids, config.maxDocuments)))
  /\ [][last'.op \in {"get", "search"} => documents' = documents]_vars

C3_Witness ==
  /\ addRun.valid
  /\ Len(addRun.ids) = 3
  /\ config.maxDocuments = 2
  /\ last.op = "add"
  /\ last.evicted # NoId
  /\ \E k \in MapKeys(documents) : documents.val[k].createdAt = documents.val[last.id].createdAt
                                   /\ k # last.id

\* C4: a successful add of an id that is already in the store keeps every other
\* stored document and leaves size() unchanged, also when size() = maxDocuments.
C4_ReAddKeepsOthers ==
  [][(last'.op = "add" /\ last'.err = "none" /\ MapHas(documents, last'.id)) =>
       /\ MapSize(documents') = Size
       /\ \A k \in MapKeys(documents) \ {last'.id} :
            MapHas(documents', k) /\ documents'.val[k] = documents.val[k]]_vars

SameText(d, doc) == d.id = doc.id /\ d.content = doc.content /\ d.embedding = doc.embedding

AllGood == \A d \in Stored : GoodLength(d.embedding)

\* C5 as claimed: in every reachable state every stored embedding has length
\* config.dimensions, and no search with a query of that length fails on dimensions.
C5_EveryStoredEmbeddingHasDimensions ==
  /\ AllGood
  /\ \A query \in Queries, topK \in 0..MaxTopK, filter \in Filters :
       GoodLength(query) => search(documents, config, query, topK, filter).err = "none"

\* C5 amended: the same, in the states where every document handed to import had
\* an embedding of length config.dimensions.
C5_StoredEmbeddingsHaveDimensionsUnlessImported ==
  imports # "mismatch" =>
    /\ AllGood
    /\ \A query \in Queries, topK \in 0..MaxTopK, filter \in Filters :
         GoodLength(query) => search(documents, config, query, topK, filter).err = "none"

C5_Witness ==
  /\ imports = "ok"
  /\ Size >= 2
  /\ last.op = "search"
  /\ last.err = "none"
  /\ last.count >= 2

\* C6: addBatch applies add in list order and stops at the first failing document:
\* it reports that error, the documents before it were added (the last of them is
\* stored, all of them without a capacity) and no later document was added.
C6_AddBatchStopsAtFirstFailure ==
  \A docs \in SeqsUpTo(BatchDocs, MaxBatch) :
    \A r \in { addBatch(kind, documents, storage, config, docs,
                        [i \in 1..Len(docs) |-> now], [i \in 1..Len(docs) |-> TRUE]) } :
      LET bad == { i \in 1..Len(docs) : ~GoodLength(docs[i].embedding) }
          f == IF bad = {} THEN Len(docs) + 1 ELSE CHOOSE i \in bad : \A j \in bad : i <= j
          isLast(i) == \A j \in (i + 1)..(f - 1) : docs[j].id # docs[i].id
      IN /\ r.err = IF bad = {} THEN "none" ELSE "DimensionMismatch"
         /\ r.done = f - 1
         /\ f > 1 => /\ MapHas(r.documents, docs[f - 1].id)
                     /\ SameText(r.documents.val[docs[f - 1].id], docs[f - 1])
         /\ config.maxDocuments = 0 =>
              \A i \in 1..(f - 1) :
                isLast(i) => /\ MapHas(r.documents, docs[i].id)
                             /\ SameText(r.documents.val[docs[i].id], docs[i])
         /\ \A k \in MapKeys(r.documents) :
              (~MapHas(documents, k) \/ r.documents.val[k] # documents.val[k]) =>
                 \E i \in 1..(f - 1) : SameText(r.documents.val[k], docs[i])
         /\ \A i \in f..Len(docs) :
              (~MapHas(documents, docs[i].id) /\ \A j \in 1..(f - 1) : docs[j].id # docs[i].id)
                 => ~MapHas(r.documents, docs[i].id)

C6_Witness ==
  /\ last.op = "addBatch"
  /\ last.err = "DimensionMismatch"
  /\ last.done = 1
  /\ last.count = 3
  /\ Size >= 1

Matching(filter) == { d \in Stored : Passes(filter, d) }

\* what C7 says of one search result r for query, topK and filter
SearchResultOk(r, query, topK, filter) ==
  \A M \in { Matching(filter) } :
    \A score \in { [d \in M |-> ScoreOf(config, query, d)] } :
      \A n \in { Len(r.results) } :
        /\ r.err = "none"
        /\ n = Min(topK, Cardinality(M))
        /\ \A i \in 1..n : r.results[i].document \in M
        /\ \A i, j \in 1..n : i # j => r.results[i].document.id # r.results[j].document.id
        /\ \A i \in 1..n : r.results[i].score = score[r.results[i].document]
        /\ \A i \in 1..(n - 1) : ~ScoreGreater(r.results[i + 1].score, r.results[i].score)
        /\ \A d \in M :
             (\A i \in 1..n : r.results[i].document # d) =>
                \A i \in 1..n : ~ScoreGreater(score[d], r.results[i].score)
        /\ M = {} => r.results = <<>>

\* C7 as claimed: for a query of the configured length and topK >= 0, search
\* returns min(topK, m) documents that satisfy the predicate, in non-increasing
\* score order, none left out with a greater score, and an empty sequence for
\* m = 0; search changes nothing in the store.
C7_SearchReturnsTopK ==
  /\ [](\A query \in Queries, topK \in 0..MaxTopK, filter \in Filters :
          GoodLength(query) =>
            \A r \in { search(documents, config, query, topK, filter) } :
              SearchResultOk(r, query, topK, filter))
  /\ [][last'.op = "search" => documents' = documents /\ storage' = storage]_vars

\* C7 amended: the same, where every stored document that satisfies the predicate
\* has an embedding of the configured length.
C7_SearchReturnsTopKOfWellSizedDocuments ==
  /\ [](\A query \in Queries, topK \in 0..MaxTopK, filter \in Filters :
          (GoodLength(query) /\ \A d \in Matching(filter) : GoodLength(d.embedding)) =>
            \A r \in { search(documents, config, query, topK, filter) } :
              SearchResultOk(r, query, topK, filter))
  /\ [][last'.op = "search" => documents' = documents /\ storage' = storage]_vars

\* a search that returned one of three well-sized documents, two of which have
\* content "x" and so satisfy every filter: topK was 1, below m
C7_Witness ==
  /\ last.op = "search"
  /\ last.err = "none"
  /\ last.count = 1
  /\ Size = 3
  /\ AllGood
  /\ Cardinality({ d \in Stored : d.content = "x" }) = 2
  /\ \E d, e \in Stored : d.embedding # e.embedding

\* C8: export() followed by import() of the result into a fresh empty store yields
\* the same size() and, for every id, the same content and embedding; export
\* does not change the source store.
C8_ExportImportRoundTrip ==
  /\ [](\A fresh \in { import(EmptyMap, export(documents)) } :
          /\ MapSize(fresh) = Size
          /\ \A id \in Ids :
               /\ MapHas(fresh, id) = MapHas(documents, id)
               /\ MapHas(documents, id) =>
                    /\ MapGet(fresh, id).content = MapGet(documents, id).content
                    /\ MapGet(fresh, id).embedding = MapGet(documents, id).embedding)
  /\ [][last'.op = "export" =>
          documents' = documents /\ storage' = storage /\ last'.count = Size]_vars

C8_Witness ==
  /\ last.op = "export"
  /\ last.count = 3
  /\ Size = 3
  /\ \E d, e \in Stored : d.content # e.content

\* C9: import evicts nothing, so it may leave size() above maxDocuments; from such
\* a state every successful add of an id that is not stored shrinks the store,
\* so that finitely many adds bring size() back to at most maxDocuments.
C9_AddShrinksOverCapacityStore ==
  /\ [][last'.op = "import" => MapSize(documents') >= Size]_vars
  /\ [][(/\ last'.op = "add"
         /\ last'.err = "none"
         /\ ~MapHas(documents, last'.id)
         /\ Size > config.maxDocuments)
        => MapSize(documents') < Size]_vars

\* an operation of a persistent store after which C10 expects the snapshot written
Returned ==
  \/ last.op = "add" /\ last.err = "none"
  \/ last.op = "addBatch" /\ last.done >= 1
  \/ last.op = "delete" /\ last.found
  \/ last.op = "clear"

\* the storage holds the serialization of export(), and a store constructed on
\* it holds the same ids with the same content, embedding and createdAt
Persisted ==
  /\ storage.state = "json"
  /\ storage.docs = Stringify(export(documents))
  /\ \A fresh \in { load(EmptyMap, storage) } :
       \A id \in Ids :
         /\ MapHas(fresh, id) = MapHas(documents, id)
         /\ MapHas(documents, id) =>
              /\ MapGet(fresh, id).content = MapGet(documents, id).content
              /\ MapGet(fresh, id).embedding = MapGet(documents, id).embedding
              /\ MapGet(fresh, id).createdAt = MapGet(documents, id).createdAt

Undecodable == storage.state \in {"absent", "corrupt", "notarray"}

\* C11: constructing a PersistentVectorStore on a key that holds nothing or a
\* value that cannot be decoded completes with an empty store, no document
\* imported in part, and leaves the storage alone; the store then takes an add
\* and answers a search.
C11_ConstructionSurvivesBadStorage ==
  /\ [](\A st \in {Absent, Corrupt, NotArray} : load(EmptyMap, st) = EmptyMap)
  /\ []((kind = "persistent" /\ last.op \in {"new", "reopen"} /\ Undecodable) =>
          /\ Size = 0
          /\ \A doc \in InputDocs, setItemOk \in BOOLEAN :
               GoodLength(doc.embedding) =>
                 \A r \in { storeAdd(kind, documents, storage, config, doc, now, setItemOk) } :
                   r.err = "none" /\ MapSize(r.documents) = 1 /\ MapHas(r.documents, doc.id)
          /\ \A query \in Queries, topK \in 0..MaxTopK, filter \in Filters :
               GoodLength(query) =>
                 search(documents, config, query, topK, filter)
                   = [err |-> "none", results |-> <<>>])
  /\ [][(last'.op = "reopen" /\ Undecodable) =>
          documents' = EmptyMap /\ storage' = storage]_vars

\* a store constructed anew, at a later time, on a value that cannot be decoded
C11_Witness ==
  /\ kind = "persistent"
  /\ last.op = "reopen"
  /\ storage.state \in {"corrupt", "notarray"}
  /\ now = 1
  /\ Size = 0

\* the configuration a retrieve with these overrides works with
ConfigOf(options) == Merge(defaultConfig, options)

\* C12: the documents retrieve returns are exactly the results of the search for
\* the query embedding (at most topK) whose score is at least minScore, in the
\* order of the search, which is non-increasing in score; none has a score
\* below minScore; retrieve changes nothing in the vector store.
C12_RetrieveKeepsScoresFromMinScore ==
  /\ [](\A query \in Texts, options \in RetrieveOptions :
          \A r \in { retrieve(documents, config, options, query, TRUE) } :
            r.err = "none" =>
              \A s \in { search(documents, config, Embed(query), ConfigOf(options).topK, "none") } :
                /\ s.err = "none"
                /\ Len(r.documents) <= ConfigOf(options).topK
                /\ Range(r.documents)
                     = { x \in Range(s.results) :
                           ScoreAtLeast(config, x.score, ConfigOf(options).minScore) }
                /\ \A i \in 1..Len(r.documents) :
                     ScoreAtLeast(config, r.documents[i].score, ConfigOf(options).minScore)
                /\ \A i, j \in 1..Len(r.documents) :
                     i < j =>
                       /\ ~ScoreGreater(r.documents[j].score, r.documents[i].score)
                       /\ r.documents[i].document.id # r.documents[j].document.id
                       /\ \E a, b \in 1..Len(s.results) :
                            a < b /\ s.results[a] = r.documents[i]
                                  /\ s.results[b] = r.documents[j])
  /\ [][last'.op = "retrieve" => documents' = documents /\ storage' = storage]_vars

\* a retrieve whose search found two documents and that returned one of them
C12_Witness ==
  /\ last.op = "retrieve"
  /\ last.err = "none"
  /\ last.done = 2
  /\ last.count = 1
  /\ Size = 2

\* sub occurs in the string s
Contains(s, sub) ==
  \E i \in 1..(Len(s) - Len(sub) + 1) : SubSeq(s, i, i + Len(sub) - 1) = sub

\* the texts of the first k of the ranked documents, as the context holds them
PrefixContext(ranked, k, rcfg) ==
  Join([i \in 1..k |-> formatDocument(ranked[i], rcfg)], Delimiter)

\* C13: the documents whose text is in the context are a prefix of the ranked
\* documents, in rank order: the cutoff drops a tail of the ranking, never a
\* document ranked before one that it keeps.
C13_ContextIsPrefixOfRanking ==
  \A query \in Texts, options \in RetrieveOptions :
    \A r \in { retrieve(documents, config, options, query, TRUE) } :
      r.err = "none" =>
        \E k \in 0..Len(r.documents) :
          r.context = PrefixContext(r.documents, k, ConfigOf(options))

\* a retrieve that returned two documents and whose context holds the first only
C13_Witness ==
  /\ last.op = "retrieve"
  /\ last.err = "none"
  /\ last.count = 2
  /\ last.context = "ab"

\* C14: the context retrieve returns, with the document texts, the metadata
\* prefixes and the delimiters between the documents, is at most
\* maxContextLength characters long.
C14_ContextWithinMaxContextLength ==
  \A query \in Texts, options \in RetrieveOptions :
    \A r \in { retrieve(documents, config, options, query, TRUE) } :
      Len(r.context) <= ConfigOf(options).maxContextLength

\* the ranking of all stored documents for the query, best first
Ranking(query) == search(documents, config, Embed(query), Size, "none").results

\* C15 as claimed, for a query whose embedding has the configured length: if no
\* stored document reaches minScore (none is stored, too), retrieve returns no
\* documents, an empty context and tokenEstimate 0, and no error; if the best
\* document's score is at least minScore, the context contains its content.
C15_BestDocumentInContext ==
  \A query \in Texts, options \in RetrieveOptions :
    GoodLength(Embed(query)) =>
      \A r \in { retrieve(documents, config, options, query, TRUE) },
         ranked \in { Ranking(query) } :
        /\ r.err = "none"
        /\ (\A i \in 1..Len(ranked) :
              ~ScoreAtLeast(config, ranked[i].score, ConfigOf(options).minScore))
             => r.documents = <<>> /\ r.context = "" /\ r.tokenEstimate = 0
        /\ (ranked # <<>> /\ ScoreAtLeast(config, ranked[1].score, ConfigOf(options).minScore))
             => Contains(r.context, ranked[1].document.content)

\* C15 amended: the same, the second part where topK is at least 1 and the best
\* document, as formatDocument writes it, is no longer than maxContextLength.
C15_BestDocumentInContextIfItFits ==
  \A query \in Texts, options \in RetrieveOptions :
    GoodLength(Embed(query)) =>
      \A r \in { retrieve(documents, config, options, query, TRUE) },
         ranked \in { Ranking(query) } :
        /\ r.err = "none"
        /\ (\A i \in 1..Len(ranked) :
              ~ScoreAtLeast(config, ranked[i].score, ConfigOf(options).minScore))
             => r.documents = <<>> /\ r.context = "" /\ r.tokenEstimate = 0
        /\ (/\ ranked # <<>>
            /\ ScoreAtLeast(config, ranked[1].score, ConfigOf(options).minScore)
            /\ ConfigOf(options).topK >= 1
            /\ Len(formatDocument(ranked[1], ConfigOf(options)))
                 <= ConfigOf(options).maxContextLength)
             => /\ Contains(r.context, ranked[1].document.content)
                /\ r.documents # <<>>
                /\ r.documents[1] = ranked[1]

\* a retrieve on a store of two documents that returned both and whose context
\* holds the text of the better one, with its metadata
C15_Witness ==
  /\ last.op = "retrieve"
  /\ last.err = "none"
  /\ last.count = 2
  /\ Contains(last.context, "[k: v]")
  /\ Contains(last.context, "ab")
  /\ Len(last.context) > 17

\* C16: every id that index or indexBatch generates differs from every id
\* generated before for this store, by any Indexer and at any clock reading, and
\* from every id stored, so that nothing is overwritten and an index into a
\* store without capacity limit raises size() by one.
C16_GeneratedIdsAreFresh ==
  [][(last'.op \in {"index", "indexBatch"} /\ last'.err = "none" /\ idCounter' # idCounter) =>
       /\ \A i \in 1..Len(last'.ids) :
            /\ last'.ids[i] \notin issued
            /\ ~MapHas(documents, last'.ids[i])
            /\ \A j \in 1..Len(last'.ids) : i # j => last'.ids[i] # last'.ids[j]
       /\ config.maxDocuments = 0 => MapSize(documents') = Size + Len(last'.ids)]_vars

\* the ids of order that are not keys of m, in their order
NewKeys(order, m) == SelectSeq(order, LAMBDA id : ~MapHas(m, id))

\* C17: indexBatch asks the provider once, for all texts, before it adds
\* anything, then adds the documents in input order and returns one id per
\* input document, in input order: the document added under ids[i] has the
\* content and metadata of docs[i] and the i-th embedding of the provider's
\* answer.
C17_IndexBatchReturnsIdsInInputOrder ==
  \A ix \in Indexers, docs \in SeqsUpTo(IndexDocs, Min(MaxBatch, IdsLeft)) :
    /\ \A r \in { indexBatch(kind, documents, storage, config, idCounter[ix], docs, now,
                             FALSE, TRUE) } :
         r.err = "ProviderError" /\ r.documents = documents /\ r.ids = <<>>
    /\ \A r \in { indexBatch(kind, documents, storage, config, idCounter[ix], docs, now,
                             TRUE, TRUE) },
          answer \in { embedBatch([i \in 1..Len(docs) |-> docs[i].content], TRUE).embeddings } :
         r.err = "none" =>
           /\ Len(r.ids) = Len(docs)
           /\ \A i, j \in 1..Len(r.ids) : i # j => r.ids[i] # r.ids[j]
           /\ \A i \in 1..Len(r.ids) :
                /\ config.maxDocuments = 0 => MapHas(r.documents, r.ids[i])
                /\ MapHas(r.documents, r.ids[i]) =>
                     /\ MapGet(r.documents, r.ids[i]).content = docs[i].content
                     /\ MapGet(r.documents, r.ids[i]).metadata = docs[i].metadata
                     /\ MapGet(r.documents, r.ids[i]).embedding = answer[i]
           /\ config.maxDocuments = 0 =>
                NewKeys(r.documents.order, documents) = NewKeys(r.ids, documents)

\* an indexBatch of two documents with different texts that returned two ids,
\* both stored
C17_Witness ==
  /\ last.op = "indexBatch"
  /\ last.err = "none"
  /\ Len(last.ids) = 2
  /\ Size = 2
  /\ MapHas(documents, last.ids[1])
  /\ MapHas(documents, last.ids[2])
  /\ MapGet(documents, last.ids[1]).content = "abcdefgh"
  /\ MapGet(documents, last.ids[2]).content = "ab"

(***************************************************************************)
(* Properties of the chunker                                               *)
(***************************************************************************)
\* the configuration of the last chunkText call
ChunkConfigOf == Merge(defaultChunkConfig, last.options)

\* 0 <= chunkOverlap < maxChunkSize
ValidChunkConfig(cfg) == 0 <= cfg.chunkOverlap /\ cfg.chunkOverlap < cfg.maxChunkSize

AllWhitespace(s) == \A i \in 1..Len(s) : SubSeq(s, i, i) \in Whitespace

\* content is text without the whitespace at its two ends
IsTrimOf(content, text) ==
  /\ content # ""
  /\ SubSeq(content, 1, 1) \notin Whitespace
  /\ SubSeq(content, Len(content), Len(content)) \notin Whitespace
  /\ \E i \in 1..Len(text) :
       /\ SubSeq(text, i, i + Len(content) - 1) = content
       /\ i + Len(content) - 1 <= Len(text)
       /\ AllWhitespace(SubSeq(text, 1, i - 1))
       /\ AllWhitespace(SubSeq(text, i + Len(content), Len(text)))

\* C18 (as stated): chunkText of a text no longer than maxChunkSize returns
\* exactly one chunk, whose content equals the text.
C18_ShortTextIsOneChunk ==
  (last.op = "chunkText" /\ Len(last.text) <= ChunkConfigOf.maxChunkSize) =>
    /\ last.returns
    /\ Len(last.chunks) = 1
    /\ last.chunks[1].content = last.text

\* C18 (amended): chunkText of a text no longer than maxChunkSize returns, for a
\* text with a character that is not whitespace, exactly one chunk, whose
\* content is the text without the whitespace at its two ends (the text itself
\* when it has none there), and for an empty or all-whitespace text no chunk.
C18_ShortTextIsOneTrimmedChunk ==
  (last.op = "chunkText" /\ Len(last.text) <= ChunkConfigOf.maxChunkSize) =>
    /\ last.returns
    /\ IF AllWhitespace(last.text) THEN last.chunks = <<>>
       ELSE /\ Len(last.chunks) = 1
            /\ IsTrimOf(last.chunks[1].content, last.text)

\* a short text with whitespace at both ends came back as one chunk
C18_Witness ==
  /\ last.op = "chunkText"
  /\ last.text = " a\n"
  /\ ChunkConfigOf.maxChunkSize = 3
  /\ Len(last.chunks) = 1
  /\ last.chunks[1].content = "a"

\* the raw units of the last chunkText call
UnitsOf == rawChunks(last.text, last.options)

\* C19: under a valid config (0 <= chunkOverlap < maxChunkSize) chunkText
\* returns, and every chunk it returns spans at most maxChunkSize characters of
\* raw unit, endOffset - startOffset <= maxChunkSize, whether the unit came from
\* separator splitting, from recursion into finer separators or from the hard
\* split.
C19_RawUnitWithinMaxChunkSize ==
  (last.op = "chunkText" /\ ValidChunkConfig(ChunkConfigOf)) =>
    /\ last.returns
    /\ \A i \in 1..Len(last.chunks) :
         last.chunks[i].endOffset - last.chunks[i].startOffset <= ChunkConfigOf.maxChunkSize

\* one call under a valid config returned a chunk of a unit the separators
\* gave, and after it a full-size chunk of a unit the hard split cut, reached
\* by recursion through the separators
C19_Witness ==
  /\ last.op = "chunkText"
  /\ ValidChunkConfig(ChunkConfigOf)
  /\ Len(ChunkConfigOf.separators) > 1
  /\ \E i, j \in 1..Len(last.chunks) :
       /\ i < j
       /\ ~UnitsOf[last.chunks[i].index + 1].hard
       /\ UnitsOf[last.chunks[j].index + 1].hard
       /\ last.chunks[j].endOffset - last.chunks[j].startOffset = ChunkConfigOf.maxChunkSize

\* C20: under a valid config every chunk chunkText returns has a content of at
\* most maxChunkSize characters, unless its unit came from the hard split of a
\* unit in which no separator was found.
C20_ContentWithinMaxChunkSize ==
  (last.op = "chunkText" /\ ValidChunkConfig(ChunkConfigOf)) =>
    \A i \in 1..Len(last.chunks) :
      ~UnitsOf[last.chunks[i].index + 1].hard =>
        Len(last.chunks[i].content) <= ChunkConfigOf.maxChunkSize

\* C21: the chunks one chunkText call returns carry the index values 0, 1, ...,
\* N-1 in output order, N the number of returned chunks, also when empty
\* chunks were discarded.
C21_IndexIsOutputPosition ==
  (last.op = "chunkText" /\ last.returns) =>
    \A i \in 1..Len(last.chunks) : last.chunks[i].index = i - 1

\* C22: chunkText under a malformed config (chunkOverlap >= maxChunkSize or
\* maxChunkSize <= 0) returns no chunks and does not loop, whatever the text;
\* under a valid config it returns.
C22_MalformedConfigFailsFast ==
  last.op = "chunkText" =>
    IF ValidChunkConfig(ChunkConfigOf) THEN last.returns
    ELSE last.returns /\ last.chunks = <<>>

\* C23: mergeSmallChunks never returns more chunks than it was given, returns
\* fewer whenever a chunk of the input with a content shorter than minSize has a
\* successor in the input, and leaves the chunk objects it was given as they
\* were.
C23_MergeReturnsNoMoreChunks ==
  last.op = "mergeSmallChunks" =>
    /\ Len(last.chunks) <= Len(last.input)
    /\ (\E i \in 1..(Len(last.input) - 1) : Len(last.input[i].content) < last.minSize)
         => Len(last.chunks) < Len(last.input)
    /\ last.after = last.input

\* a short chunk in the middle of three was merged with its successor, after a
\* long one was passed on
C23_Witness ==
  /\ last.op = "mergeSmallChunks"
  /\ Len(last.input) = 3
  /\ Len(last.input[1].content) >= last.minSize
  /\ Len(last.input[2].content) < last.minSize
  /\ Len(last.chunks) = 2
  /\ last.chunks[2].content = last.input[2].content \o "\n\n" \o last.input[3].content

\* C24: the chunks mergeSmallChunks returns carry the index values 0, 1, ...,
\* M-1 in output order, whatever index values the chunks of the input carry.
C24_MergedIndexIsOutputPosition ==
  last.op = "mergeSmallChunks" =>
    \A i \in 1..Len(last.chunks) : last.chunks[i].index = i - 1

(***************************************************************************)
(* Properties of the token counters                                        *)
(***************************************************************************)
\* C25: for both token counters, every text and every maxTokens >= 0,
\* truncate(text, maxTokens) returns a string whose count is at most
\* maxTokens, and the text itself when the count of the text is at most
\* maxTokens.
C25_TruncateWithinMaxTokens ==
  last.op = "truncate" =>
    /\ count(last.type, last.result) <= last.maxTokens
    /\ count(last.type, last.text) <= last.maxTokens => last.result = last.text

\* C26: for both token counters, every text and every maxTokens >= 1,
\* split(text, maxTokens) returns, and every part it returns has a count of at
\* most maxTokens.
C26_SplitTerminatesWithinMaxTokens ==
  (last.op = "split" /\ last.maxTokens >= 1) =>
    /\ last.returns
    /\ \A i \in 1..Len(last.parts) : count(last.type, last.parts[i]) <= last.maxTokens

(***************************************************************************)
(* Properties of the embedding providers and of the callers of one store   *)
(***************************************************************************)
\* C27: no remote provider object exists without a credential, creating one
\* without a configured credential having failed, and so no embed or
\* embedBatch call on a remote provider without a credential is reached.
C27_RemoteProviderHasCredential ==
  /\ last.provider.class = "OpenAIEmbeddingProvider" => ~Falsy(last.provider.config.apiKey)
  /\ last.op \in {"embed", "embedBatch"} => ~Falsy(last.provider.config.apiKey)

\* C28: when the embedding provider fails during index, indexBatch or
\* retrieve, the call ends with the provider's error and the store's documents
\* and storage are as before: index and indexBatch add no document and return
\* no id, retrieve performs no search and returns nothing.
C28_ProviderFailureLeavesStore ==
  /\ [](/\ \A d \in IndexDocs, ix \in Indexers :
            LET r == index(kind, documents, storage, config, idCounter[ix], d.content,
                           d.metadata, now, FALSE, TRUE)
            IN r.err = "ProviderError" /\ r.documents = documents /\ r.storage = storage
        /\ \A docs \in SeqsUpTo(IndexDocs, Min(MaxBatch, IdsLeft)), ix \in Indexers :
            LET r == indexBatch(kind, documents, storage, config, idCounter[ix], docs, now,
                                FALSE, TRUE)
            IN /\ r.err = "ProviderError" /\ r.ids = <<>>
               /\ r.documents = documents /\ r.storage = storage
        /\ \A query \in Texts, options \in RetrieveOptions :
            retrieve(documents, config, options, query, FALSE) = NoRetrieval("ProviderError"))
  /\ [][(last'.op \in {"index", "indexBatch", "retrieve"} /\ last'.err = "ProviderError")
          => (documents' = documents /\ storage' = storage /\ issued' = issued)]_vars

\* the provider failed on an index into a store that holds a document
C28_Witness ==
  /\ last.op = "index"
  /\ last.err = "ProviderError"
  /\ last.ids = <<>>
  /\ Size = 1

\* no PersistentVectorStore.add stands between its super.add and its save
NoAddInFlight == \A c \in Callers : inflight[c].pc # "save"

\* a store constructed on the storage holds the documents this one holds
SnapshotMatches == export(load(EmptyMap, storage)) = export(documents)

\* the keys of documents are distinct and each is the id of its document
UniqueKeys ==
  /\ \A i, j \in 1..Len(documents.order) : i # j => documents.order[i] # documents.order[j]
  /\ MapKeys(documents) = DOMAIN documents.val
  /\ \A k \in DOMAIN documents.val : documents.val[k].id = k

AllUnitChunks == chunksFrom(UnitsOf, 0, 0, ChunkConfigOf)

\* C30: the offsets of every chunk chunkText returns are offsets into the
\* source text: 0 <= startOffset <= endOffset <= len(text); the first raw unit
\* starts at 0, each later raw unit starts where the one before it ends, and
\* the span of a chunk is the length of its raw unit, whatever chunkOverlap
\* prepends to the content; for separator splits and for hard splits with
\* chunkOverlap > 0 alike.
C30_OffsetsAreSourceOffsets ==
  (last.op = "chunkText" /\ ValidChunkConfig(ChunkConfigOf) /\ last.returns) =>
    /\ \A i \in 1..Len(last.chunks) :
         /\ 0 <= last.chunks[i].startOffset
         /\ last.chunks[i].startOffset <= last.chunks[i].endOffset
         /\ last.chunks[i].endOffset <= Len(last.text)
    /\ \A i \in 1..Len(AllUnitChunks) :
         /\ AllUnitChunks[i].startOffset =
              (IF i = 1 THEN 0 ELSE AllUnitChunks[i - 1].endOffset)
         /\ AllUnitChunks[i].endOffset - AllUnitChunks[i].startOffset =
              Len(UnitsOf[i].text)

==============================================================================
